---- MODULE Spec2Model ----
(***************************************************************************)
(* A model of the parameterized SQL executor of pyBatch:                   *)
(*   MsSqlDataBase (src/config/database.py), its copy SqlServerDB          *)
(*   (src/common/sqlserverdb.py) and the stateless SqlHelper               *)
(*   (src/sqlhelper.py).                                                   *)
(* The executor owns one pyodbc connection and an in_transaction flag.     *)
(* The database engine is modelled as a committed store plus the           *)
(* uncommitted writes of the executor's current connection.                *)
(***************************************************************************)
EXTENDS Integers, Sequences, FiniteSets, TLC

VARIABLES
    conn,            \* self.conn: NoConn (None) or the id of the pyodbc connection
    in_transaction,  \* self.in_transaction
    connCount,       \* number of connections pyodbc.connect has opened so far
    alive,           \* engine side: the connection held in conn is still usable
    autocommit,      \* conn.autocommit: the engine commits each statement by itself
    committed,       \* engine side: the committed store, what a fresh connection reads
    pending,         \* engine side: uncommitted writes of the connection held in conn
    last,            \* the last call: its name, error, driver calls and return value
    txlog,           \* history: the calls since the last successful begin_transaction
    txeffs,          \* history: the effects of the execute() calls in txlog
    snap,            \* history: the committed store when txlog was started
    cvSql,           \* conversion input: statement text
    cvParams,        \* conversion input: parameters
    cvOut,           \* conversion output
    client,          \* the caller's program and its position in it
    row,             \* row mapping: a result's column names, one row, the mapping built
    ftp,             \* FtpClient.ftp: None, or what the ftplib object it refers to is
    remote,          \* FTP server side: the names of the files in the remote directory
    ftplog           \* history of the FtpClient: connected or not, and its last call

vars == <<conn, in_transaction, connCount, alive, autocommit, committed, pending, last,
          txlog, txeffs, snap, cvSql, cvParams, cvOut, client, row, ftp, remote, ftplog>>

dbvars == <<conn, in_transaction, connCount, alive, autocommit, committed, pending, last,
            txlog, txeffs, snap>>

cvvars == <<cvSql, cvParams, cvOut>>

ftpvars == <<ftp, remote, ftplog>>

-----------------------------------------------------------------------------
(* Bounds *)

MaxConns == 3        \* connections pyodbc.connect may open in one run
MaxExec == 2         \* execute() calls recorded in one transaction history
MaxSqlLen == 4       \* characters of a statement text
MaxCols == 3         \* columns of a result row
MaxParams == 2       \* parameters in a parameter list

-----------------------------------------------------------------------------
(* The engine's data: rows of one table, key -> value *)

Keys == {"k1", "k2"}
Vals == {"old", "new"}
Effects == [k : Keys, v : Vals]          \* UPDATE T SET v = e.v WHERE k = e.k

NoWrites == [k \in {} |-> "old"]

Write(p, e) == [k \in (DOMAIN p) \cup {e.k} |-> IF k = e.k THEN e.v ELSE p[k]]

Overlay(c, p) == [k \in Keys |-> IF k \in DOMAIN p THEN p[k] ELSE c[k]]

NoConn == 0

-----------------------------------------------------------------------------
(* Statement texts and parameters *)

Alphabet == {":", "@", "a", "b", "1", " "}
Letters == {"a", "b"}                    \* [A-Za-z_] within Alphabet
WordChars == {"a", "b", "1"}             \* \w, [A-Za-z0-9_] within Alphabet

SeqsUpTo(S, n) == UNION {[1..m -> S] : m \in 0..n}

Statements == SeqsUpTo(Alphabet, MaxSqlLen)

ParamNames == {<<"a">>, <<"b">>}
ParamValues == {10, 20}

\* MsSqlParameter / SqlParameter: param_name, param_value
SqlParameter == [param_name : ParamNames, param_value : ParamValues]

\* The params argument: None, a list of SqlParameter, or positional values
\* (a tuple or a list of plain values).
ParamsNone == [kind |-> "none", list |-> <<>>]
ParamsNamed(l) == [kind |-> "named", list |-> l]
ParamsPlain(l) == [kind |-> "plain", list |-> l]

\* Other shapes of the params argument: a tuple of values, a tuple of parameter
\* objects, a dict, and a list whose first element is a value and whose later
\* elements are parameter objects.
ParamsTuple(l) == [kind |-> "tuple", list |-> l]
ParamsObjectTuple(l) == [kind |-> "object_tuple", list |-> l]
ParamsDict(l) == [kind |-> "dict", list |-> l]
ParamsMixed(l, rest) == [kind |-> "mixed", list |-> l, rest |-> rest]

ParamShapes ==
    {ParamsTuple(<<10>>), ParamsDict(<<20>>),
     ParamsObjectTuple(<<[param_name |-> <<"a">>, param_value |-> 10]>>),
     ParamsMixed(<<10>>, <<[param_name |-> <<"a">>, param_value |-> 20]>>)}

\* isinstance(params, list)
IsList(params) == params.kind \in {"named", "plain", "mixed"}

\* isinstance(params[0], MsSqlParameter), for a non-empty params
FirstIsParameter(params) == params.kind \in {"named", "object_tuple"}

ParamInputs ==
    {ParamsNone}
    \cup {ParamsNamed(l) : l \in SeqsUpTo(SqlParameter, MaxParams) \ {<<>>}}
    \cup {ParamsPlain(l) : l \in {<<>>, <<10>>, <<20, 10>>}}
    \cup ParamShapes

\* re: the two placeholder patterns of the source
PatternColonWord == [markers |-> {":"}, first |-> WordChars]        \* r':(\w+)'
PatternMarkerIdent == [markers |-> {":", "@"}, first |-> Letters]   \* r'[:@]([A-Za-z_][A-Za-z0-9_]*)'

RECURSIVE WordRun(_, _)
\* the number of consecutive word characters of s from position j on (greedy +, *)
WordRun(s, j) ==
    IF j > Len(s) \/ s[j] \notin WordChars THEN 0 ELSE 1 + WordRun(s, j + 1)

\* the length of the group matched at position i, 0 when the pattern does not match there
MatchLen(pat, s, i) ==
    IF s[i] \in pat.markers /\ i < Len(s) /\ s[i + 1] \in pat.first
    THEN 1 + WordRun(s, i + 2)
    ELSE 0

RECURSIVE re_findall(_, _, _)
\* re.findall(pattern, sql): group 1 of every non-overlapping match, left to right
re_findall(pat, s, i) ==
    IF i > Len(s) THEN <<>>
    ELSE LET n == MatchLen(pat, s, i)
         IN IF n > 0
            THEN <<SubSeq(s, i + 1, i + n)>> \o re_findall(pat, s, i + n + 1)
            ELSE re_findall(pat, s, i + 1)

RECURSIVE re_sub(_, _, _)
\* re.sub(pattern, '?', sql): every non-overlapping match replaced by '?'
re_sub(pat, s, i) ==
    IF i > Len(s) THEN <<>>
    ELSE LET n == MatchLen(pat, s, i)
         IN IF n > 0
            THEN <<"?">> \o re_sub(pat, s, i + n + 1)
            ELSE <<s[i]>> \o re_sub(pat, s, i + 1)

\* faulty variant of param_dict: the first parameter of a name wins
param_dict_first_wins(params) ==
    [n \in {params[i].param_name : i \in DOMAIN params} |->
        LET j == CHOOSE j \in DOMAIN params :
                    /\ params[j].param_name = n
                    /\ \A m \in DOMAIN params : params[m].param_name = n => j <= m
        IN params[j].param_value]

\* {p.param_name: p.param_value for p in params}: the last parameter of a name wins
param_dict(params) ==
    [n \in {params[i].param_name : i \in DOMAIN params} |->
        LET j == CHOOSE j \in DOMAIN params :
                    /\ params[j].param_name = n
                    /\ \A m \in DOMAIN params : params[m].param_name = n => m <= j
        IN params[j].param_value]

\* [param_dict[name] for name in matches]: KeyError at the first name not in the dict
Lookup(d, matches, sqlOut) ==
    LET missing == {i \in DOMAIN matches : matches[i] \notin DOMAIN d}
    IN IF missing # {}
       THEN [err |-> "KeyError",
             key |-> matches[CHOOSE i \in missing : \A m \in missing : i <= m],
             sql |-> <<>>, values |-> <<>>]
       ELSE [err |-> "none", key |-> <<>>, sql |-> sqlOut,
             values |-> [i \in DOMAIN matches |-> d[matches[i]]]]

\* faulty variant of convert_named_params: no early return on an empty list
convert_named_params_always_scans(sql, params) ==
    Lookup(param_dict(params), re_findall(PatternColonWord, sql, 1),
           re_sub(PatternColonWord, sql, 1))

\* MsSqlDataBase._convert_named_params / SqlServerDB._convert_named_params
convert_named_params(sql, params) ==
    IF params = <<>>
    THEN [err |-> "none", key |-> <<>>, sql |-> sql, values |-> <<>>]
    ELSE Lookup(param_dict(params), re_findall(PatternColonWord, sql, 1),
                re_sub(PatternColonWord, sql, 1))

\* SqlHelper._convert_named_to_qmark
convert_named_to_qmark(sql, params) ==
    IF params.list = <<>>
    THEN [err |-> "none", key |-> <<>>, sql |-> sql, values |-> <<>>]
    ELSE Lookup(param_dict(params.list), re_findall(PatternMarkerIdent, sql, 1),
                re_sub(PatternMarkerIdent, sql, 1))

\* MsSqlDataBase._process_parameters: what is handed to cursor.execute
\* faulty variant of _process_parameters: any sequence of parameter objects is rewritten
process_parameters_any_sequence(sql, params) ==
    IF params.kind = "none"
    THEN [err |-> "none", key |-> <<>>, sql |-> sql, params |-> ParamsNone]
    ELSE IF params.list # <<>> /\ FirstIsParameter(params)
    THEN LET r == convert_named_params(sql, params.list)
         IN [err |-> r.err, key |-> r.key, sql |-> r.sql, params |-> ParamsPlain(r.values)]
    ELSE [err |-> "none", key |-> <<>>, sql |-> sql, params |-> params]

process_parameters(sql, params) ==
    IF params.kind = "none"
    THEN [err |-> "none", key |-> <<>>, sql |-> sql, params |-> ParamsNone]
    ELSE IF IsList(params) /\ params.list # <<>> /\ FirstIsParameter(params)
    THEN LET r == convert_named_params(sql, params.list)
         IN [err |-> r.err, key |-> r.key, sql |-> r.sql, params |-> ParamsPlain(r.values)]
    ELSE [err |-> "none", key |-> <<>>, sql |-> sql, params |-> params]

-----------------------------------------------------------------------------
(* The executor: MsSqlDataBase / SqlServerDB.  Each method is an operator   *)
(* from the state s at the call (and the driver's outcomes) to the state    *)
(* at the return, the error raised and the driver calls made.               *)

Cur == [conn |-> conn, in_transaction |-> in_transaction, connCount |-> connCount,
        alive |-> alive, autocommit |-> autocommit, committed |-> committed,
        pending |-> pending]

NoRet == [kind |-> "void", rows |-> <<>>]

Result(s, err, calls) == [s |-> s, err |-> err, key |-> <<>>, calls |-> calls, ret |-> NoRet]

\* pyodbc: Connection.commit / rollback / close, Cursor.execute, on the engine's data
DriverCommit(s) == [s EXCEPT !.committed = Overlay(s.committed, s.pending),
                             !.pending = NoWrites]
DriverRollback(s) == [s EXCEPT !.pending = NoWrites]
DriverClose(s) == [s EXCEPT !.alive = FALSE, !.pending = NoWrites]
DriverExecute(s, eff) ==
    IF s.autocommit
    THEN [s EXCEPT !.committed = Overlay(s.committed, Write(s.pending, eff)),
                   !.pending = NoWrites]
    ELSE [s EXCEPT !.pending = Write(s.pending, eff)]

\* _is_connection_closed: SELECT 1 fails on a connection that is gone
is_connection_closed(s) == s.conn = NoConn \/ ~s.alive

\* faulty variant of connect: a new connection is opened on every call
connect_always_reconnects(s, canConnect) ==
    LET probe == IF s.conn = NoConn THEN <<>> ELSE <<"probe">>
    IN IF canConnect
       THEN Result([s EXCEPT !.conn = s.connCount + 1,
                             !.connCount = s.connCount + 1,
                             !.alive = TRUE,
                             !.autocommit = FALSE,
                             !.pending = NoWrites,
                             !.in_transaction = FALSE],
                   "none", probe \o <<"connect">>)
       ELSE Result(s, "ConnectError", probe \o <<"connect">>)

\* faulty variant of connect: the connection is left in the engine's auto-commit mode
connect_autocommit_on(s, canConnect) ==
    LET probe == IF s.conn = NoConn THEN <<>> ELSE <<"probe">>
    IN IF s.conn = NoConn \/ is_connection_closed(s)
       THEN IF canConnect
            THEN Result([s EXCEPT !.conn = s.connCount + 1,
                                  !.connCount = s.connCount + 1,
                                  !.alive = TRUE,
                                  !.autocommit = TRUE,
                                  !.pending = NoWrites,
                                  !.in_transaction = FALSE],
                        "none", probe \o <<"connect">>)
            ELSE Result(s, "ConnectError", probe \o <<"connect">>)
       ELSE Result(s, "none", probe)

connect(s, canConnect) ==
    LET probe == IF s.conn = NoConn THEN <<>> ELSE <<"probe">>
    IN IF s.conn = NoConn \/ is_connection_closed(s)
       THEN IF canConnect
            THEN Result([s EXCEPT !.conn = s.connCount + 1,
                                  !.connCount = s.connCount + 1,
                                  !.alive = TRUE,
                                  !.autocommit = FALSE,
                                  !.pending = NoWrites,
                                  !.in_transaction = FALSE],
                        "none", probe \o <<"connect">>)
            ELSE Result(s, "ConnectError", probe \o <<"connect">>)
       ELSE Result(s, "none", probe)

\* faulty variant of close: no rollback before the connection is closed
close_without_rollback(s, rollbackOk, closeOk) ==
    IF s.conn # NoConn
    THEN IF closeOk
         THEN Result([DriverClose(s) EXCEPT !.conn = NoConn, !.in_transaction = FALSE],
                     "none", <<"close">>)
         ELSE Result(s, "DriverError", <<"close">>)
    ELSE Result(s, "none", <<>>)

\* faulty variant of close: raises when there is no connection, as commit does
close_requires_conn(s, rollbackOk, closeOk) ==
    IF s.conn # NoConn
    THEN LET tried == s.in_transaction
             rolled == tried /\ s.alive /\ rollbackOk
             s1 == IF rolled THEN DriverRollback(s) ELSE s
             calls == IF tried THEN <<"rollback", "close">> ELSE <<"close">>
         IN IF closeOk
            THEN Result([DriverClose(s1) EXCEPT !.conn = NoConn, !.in_transaction = FALSE],
                        IF tried /\ ~rolled THEN "DriverError" ELSE "none", calls)
            ELSE Result(s1, "DriverError", calls)
    ELSE Result(s, "RuntimeError", <<>>)

\* faulty variant of close(): the connection is closed and self.conn still refers to it
close_keeps_handle(s, rollbackOk, closeOk) ==
    IF s.conn # NoConn
    THEN LET tried == s.in_transaction
             rolled == tried /\ s.alive /\ rollbackOk
             s1 == IF rolled THEN DriverRollback(s) ELSE s
             calls == IF tried THEN <<"rollback", "close">> ELSE <<"close">>
         IN IF closeOk
            THEN Result([DriverClose(s1) EXCEPT !.in_transaction = FALSE],
                        IF tried /\ ~rolled THEN "DriverError" ELSE "none", calls)
            ELSE Result(s1, "DriverError", calls)
    ELSE Result(s, "none", <<>>)

\* faulty variant of close(): the handle is dropped and the flag is left as it was
close_keeps_flag(s, rollbackOk, closeOk) ==
    IF s.conn # NoConn
    THEN LET tried == s.in_transaction
             rolled == tried /\ s.alive /\ rollbackOk
             s1 == IF rolled THEN DriverRollback(s) ELSE s
             calls == IF tried THEN <<"rollback", "close">> ELSE <<"close">>
         IN IF closeOk
            THEN Result([DriverClose(s1) EXCEPT !.conn = NoConn],
                        IF tried /\ ~rolled THEN "DriverError" ELSE "none", calls)
            ELSE Result(s1, "DriverError", calls)
    ELSE Result(s, "none", <<>>)

close(s, rollbackOk, closeOk) ==
    IF s.conn # NoConn
    THEN LET tried == s.in_transaction
             rolled == tried /\ s.alive /\ rollbackOk
             s1 == IF rolled THEN DriverRollback(s) ELSE s
             calls == IF tried THEN <<"rollback", "close">> ELSE <<"close">>
         IN IF closeOk
            THEN Result([DriverClose(s1) EXCEPT !.conn = NoConn, !.in_transaction = FALSE],
                        IF tried /\ ~rolled THEN "DriverError" ELSE "none", calls)
            ELSE Result(s1, "DriverError", calls)
    ELSE Result(s, "none", <<>>)

\* faulty variant of begin_transaction: drops the connection's uncommitted work
begin_transaction_resets(s, canConnect) ==
    LET c == connect(s, canConnect)
    IN IF c.err # "none" THEN c
       ELSE [c EXCEPT !.s = [DriverRollback(c.s) EXCEPT !.in_transaction = TRUE]]

\* faulty variant of begin_transaction: the flag is set before connect() is called
begin_transaction_flag_first(s, canConnect) ==
    LET c == connect([s EXCEPT !.in_transaction = TRUE], canConnect)
    IN IF c.err # "none" THEN c
       ELSE [c EXCEPT !.s.in_transaction = TRUE]

begin_transaction(s, canConnect) ==
    LET c == connect(s, canConnect)
    IN IF c.err # "none" THEN c
       ELSE [c EXCEPT !.s.in_transaction = TRUE]

\* faulty variant of commit: in_transaction is not reset
commit_keeps_flag(s, commitOk) ==
    IF s.conn = NoConn
    THEN Result(s, "RuntimeError", <<>>)
    ELSE IF s.alive /\ commitOk
    THEN Result(DriverCommit(s), "none", <<"commit">>)
    ELSE Result(s, "DriverError", <<"commit">>)

\* faulty variant of commit: the flag is reset but conn.commit() is not called
commit_flag_only(s, commitOk) ==
    IF s.conn = NoConn
    THEN Result(s, "RuntimeError", <<>>)
    ELSE Result([s EXCEPT !.in_transaction = FALSE], "none", <<>>)

\* faulty variant of commit: the flag is reset in a finally block, raised or not
commit_resets_on_error(s, commitOk) ==
    IF s.conn = NoConn
    THEN Result(s, "RuntimeError", <<>>)
    ELSE IF s.alive /\ commitOk
    THEN Result([DriverCommit(s) EXCEPT !.in_transaction = FALSE], "none", <<"commit">>)
    ELSE Result([s EXCEPT !.in_transaction = FALSE], "DriverError", <<"commit">>)

\* faulty variant of commit: returns silently when there is no connection
commit_silent_without_conn(s, commitOk) ==
    IF s.conn = NoConn
    THEN Result(s, "none", <<>>)
    ELSE IF s.alive /\ commitOk
    THEN Result([DriverCommit(s) EXCEPT !.in_transaction = FALSE], "none", <<"commit">>)
    ELSE Result(s, "DriverError", <<"commit">>)

commit(s, commitOk) ==
    IF s.conn = NoConn
    THEN Result(s, "RuntimeError", <<>>)
    ELSE IF s.alive /\ commitOk
    THEN Result([DriverCommit(s) EXCEPT !.in_transaction = FALSE], "none", <<"commit">>)
    ELSE Result(s, "DriverError", <<"commit">>)

\* faulty variant of rollback: calls conn.commit() in place of conn.rollback()
rollback_commits(s, rollbackOk) ==
    IF s.conn # NoConn
    THEN IF s.alive /\ rollbackOk
         THEN Result([DriverCommit(s) EXCEPT !.in_transaction = FALSE], "none", <<"commit">>)
         ELSE Result(s, "DriverError", <<"commit">>)
    ELSE Result([s EXCEPT !.in_transaction = FALSE], "none", <<>>)

\* faulty variant of rollback: raises when there is no connection, as commit does
rollback_requires_conn(s, rollbackOk) ==
    IF s.conn # NoConn
    THEN IF s.alive /\ rollbackOk
         THEN Result([DriverRollback(s) EXCEPT !.in_transaction = FALSE], "none", <<"rollback">>)
         ELSE Result(s, "DriverError", <<"rollback">>)
    ELSE Result(s, "RuntimeError", <<>>)

rollback(s, rollbackOk) ==
    IF s.conn # NoConn
    THEN IF s.alive /\ rollbackOk
         THEN Result([DriverRollback(s) EXCEPT !.in_transaction = FALSE], "none", <<"rollback">>)
         ELSE Result(s, "DriverError", <<"rollback">>)
    ELSE Result([s EXCEPT !.in_transaction = FALSE], "none", <<>>)

\* faulty variant of commit_policy: execute() never commits
commit_policy_never(x, calls, commitOk) ==
    Result(x, "none", calls \o <<"cursor.close">>)

\* faulty variant of commit_policy: execute() commits whatever in_transaction is
commit_policy_always(x, calls, commitOk) ==
    IF commitOk
    THEN Result(DriverCommit(x), "none", calls \o <<"commit", "cursor.close">>)
    ELSE Result(x, "DriverError", calls \o <<"commit", "cursor.close">>)

\* execute, lines 99-107: commit unless a transaction was begun, then close the cursor
commit_policy(x, calls, commitOk) ==
    IF ~x.in_transaction
    THEN IF commitOk
         THEN Result(DriverCommit(x), "none", calls \o <<"commit", "cursor.close">>)
         ELSE Result(x, "DriverError", calls \o <<"commit", "cursor.close">>)
    ELSE Result(x, "none", calls \o <<"cursor.close">>)

\* faulty variant of execute: a statement the engine fails is followed by conn.rollback()
execute_rollback_on_error(s, req, eff, canConnect, execOk, commitOk) ==
    LET c == connect(s, canConnect)
    IN IF c.err # "none" THEN c
       ELSE LET p == process_parameters(req.sql, req.params)
            IN IF p.err # "none"
               THEN [Result(c.s, p.err, c.calls \o <<"cursor", "cursor.close">>)
                        EXCEPT !.key = p.key]
               ELSE IF ~execOk
               THEN Result(DriverRollback(c.s), "QueryError",
                           c.calls \o <<"cursor", "execute", "rollback", "cursor.close">>)
               ELSE commit_policy(DriverExecute(c.s, eff),
                                  c.calls \o <<"cursor", "execute">>, commitOk)

\* faulty variant of execute: an unbound placeholder is answered with a rollback
execute_rollback_on_unbound(s, req, eff, canConnect, execOk, commitOk) ==
    LET c == connect(s, canConnect)
    IN IF c.err # "none" THEN c
       ELSE LET p == process_parameters(req.sql, req.params)
            IN IF p.err # "none"
               THEN [Result([DriverRollback(c.s) EXCEPT !.in_transaction = FALSE], p.err,
                            c.calls \o <<"cursor", "rollback", "cursor.close">>)
                        EXCEPT !.key = p.key]
               ELSE IF ~execOk
               THEN Result(c.s, "QueryError",
                           c.calls \o <<"cursor", "execute", "cursor.close">>)
               ELSE commit_policy(DriverExecute(c.s, eff),
                                  c.calls \o <<"cursor", "execute">>, commitOk)

execute(s, req, eff, canConnect, execOk, commitOk) ==
    LET c == connect(s, canConnect)
    IN IF c.err # "none" THEN c
       ELSE LET p == process_parameters(req.sql, req.params)
            IN IF p.err # "none"
               THEN [Result(c.s, p.err, c.calls \o <<"cursor", "cursor.close">>)
                        EXCEPT !.key = p.key]
               ELSE IF ~execOk
               THEN Result(c.s, "QueryError",
                           c.calls \o <<"cursor", "execute", "cursor.close">>)
               ELSE commit_policy(DriverExecute(c.s, eff),
                                  c.calls \o <<"cursor", "execute">>, commitOk)

\* A dict, as a sequence of entries in insertion order.
\* faulty variant of dict_set: a key that is there keeps its value
dict_set_first_wins(d, k, v) ==
    IF \E i \in DOMAIN d : d[i].key = k
    THEN d
    ELSE Append(d, [key |-> k, value |-> v])

\* d[k] = v: a key that is there keeps its place and takes the new value
dict_set(d, k, v) ==
    IF \E i \in DOMAIN d : d[i].key = k
    THEN [i \in DOMAIN d |-> IF d[i].key = k THEN [key |-> k, value |-> v] ELSE d[i]]
    ELSE Append(d, [key |-> k, value |-> v])

Min(a, b) == IF a <= b THEN a ELSE b

\* dict(zip(columns, values)): the pairs are inserted from left to right
RECURSIVE DictOfPairs(_, _, _)
DictOfPairs(columns, values, n) ==
    IF n = 0 THEN <<>>
    ELSE dict_set(DictOfPairs(columns, values, n - 1), columns[n], values[n])

dict_zip(columns, values) == DictOfPairs(columns, values, Min(Len(columns), Len(values)))

\* cursor.description of the queries: the key column and the value column
Columns == <<"k", "v">>

\* The rows a query reads on the executor's connection: committed data overlaid
\* with the connection's own uncommitted writes, in key order.
KeyOrder == <<"k1", "k2">>
QueryRows(s, q) ==
    LET view == Overlay(s.committed, s.pending)
        all == [i \in DOMAIN KeyOrder |-> <<KeyOrder[i], view[KeyOrder[i]]>>]
    IN SelectSeq(all, LAMBDA r : r[2] = q)

\* [dict(zip(columns, row)) for row in rows]
RowDicts(rows) == [i \in DOMAIN rows |-> dict_zip(Columns, rows[i])]

\* faulty variant of FetchPrepare: the fetch commits after running its statement
FetchPrepare_commits(s, req, canConnect, execOk) ==
    LET c == connect(s, canConnect)
    IN IF c.err # "none" THEN c
       ELSE LET p == process_parameters(req.sql, req.params)
            IN IF p.err # "none"
               THEN [Result(c.s, p.err, c.calls \o <<"cursor", "cursor.close">>)
                        EXCEPT !.key = p.key]
               ELSE IF ~execOk
               THEN Result(c.s, "QueryError", c.calls \o <<"cursor", "execute", "cursor.close">>)
               ELSE Result(DriverCommit(c.s), "none",
                           c.calls \o <<"cursor", "execute", "commit", "cursor.close">>)

\* the part fetch_one and fetch_all share: connect, cursor, parameters, cursor.execute
FetchPrepare(s, req, canConnect, execOk) ==
    LET c == connect(s, canConnect)
    IN IF c.err # "none" THEN c
       ELSE LET p == process_parameters(req.sql, req.params)
            IN IF p.err # "none"
               THEN [Result(c.s, p.err, c.calls \o <<"cursor", "cursor.close">>)
                        EXCEPT !.key = p.key]
               ELSE Result(c.s, IF execOk THEN "none" ELSE "QueryError",
                           c.calls \o <<"cursor", "execute", "cursor.close">>)

fetch_one(s, req, q, canConnect, execOk) ==
    LET f == FetchPrepare(s, req, canConnect, execOk)
        rows == QueryRows(f.s, q)
    IN IF f.err # "none" THEN f
       ELSE IF rows # <<>>
       THEN [f EXCEPT !.ret = [kind |-> "row", rows |-> <<dict_zip(Columns, rows[1])>>]]
       ELSE [f EXCEPT !.ret = [kind |-> "None", rows |-> <<>>]]

\* faulty variant of fetch_all: None in place of the empty list
fetch_all_none_when_empty(s, req, q, canConnect, execOk) ==
    LET f == FetchPrepare(s, req, canConnect, execOk)
        rows == QueryRows(f.s, q)
    IN IF f.err # "none" THEN f
       ELSE IF rows # <<>>
       THEN [f EXCEPT !.ret = [kind |-> "list", rows |-> RowDicts(rows)]]
       ELSE [f EXCEPT !.ret = [kind |-> "None", rows |-> <<>>]]

fetch_all(s, req, q, canConnect, execOk) ==
    LET f == FetchPrepare(s, req, canConnect, execOk)
        rows == QueryRows(f.s, q)
    IN IF f.err # "none" THEN f
       ELSE [f EXCEPT !.ret = [kind |-> "list", rows |-> RowDicts(rows)]]

-----------------------------------------------------------------------------
(* The calls a client makes *)

SqlSamples == {<<"a">>, <<":", "a">>, <<":", "b">>, <<"@", "b">>}
ParamSamples == {ParamsNone, ParamsNamed(<<[param_name |-> <<"a">>, param_value |-> 10]>>)}
Requests == [sql : SqlSamples, params : ParamSamples]

\* the outcomes pyodbc.connect can have in a call from state s: it is only called
\* when there is no connection or the probe fails
ConnectOutcomes(s) == IF is_connection_closed(s) THEN BOOLEAN ELSE {TRUE}

\* the outcomes conn.commit() can have inside execute(): it is only called when
\* the connection execute() works on is not in a transaction
CommitOutcomes(s) == IF s.in_transaction /\ ~is_connection_closed(s) THEN {TRUE} ELSE BOOLEAN

Tracking == txlog # <<>> /\ txlog[Len(txlog)] \in {"begin", "execute"}

\* the history of the transaction in progress: begin, execute ..., then the call ending it
NextLog(op, r) ==
    IF op = "begin_transaction" /\ r.err = "none" THEN <<"begin">>
    ELSE IF ~Tracking \/ r.err # "none" THEN <<>>
    ELSE IF op = "execute"
    THEN IF Len(txeffs) < MaxExec THEN Append(txlog, "execute") ELSE <<>>
    ELSE IF op \in {"commit", "rollback", "close"} THEN Append(txlog, op)
    ELSE <<>>

NoClient == [phase |-> "none"]

NoRow == [done |-> FALSE, columns |-> <<>>, values |-> <<>>, dict |-> <<>>]

\* FtpClient.__init__: self.ftp = None; nothing called yet
NoFtpLog == [connected |-> FALSE, was |-> FALSE, op |-> "init", ret |-> "none",
             raised |-> FALSE, sent |-> FALSE]

FtpIdle ==
    /\ ftp = "None"
    /\ remote = {}
    /\ ftplog = NoFtpLog

NoReq == [sql |-> <<>>, params |-> ParamsNone]

Step(op, r, req, eff, q) ==
    /\ r.s.connCount <= MaxConns
    /\ conn' = r.s.conn
    /\ in_transaction' = r.s.in_transaction
    /\ connCount' = r.s.connCount
    /\ alive' = r.s.alive
    /\ autocommit' = r.s.autocommit
    /\ committed' = r.s.committed
    /\ pending' = r.s.pending
    /\ last' = [op |-> op, err |-> r.err, key |-> r.key, calls |-> r.calls,
                ret |-> r.ret, tx0 |-> in_transaction, req |-> req, eff |-> eff, q |-> q]
    /\ txlog' = NextLog(op, r)
    /\ txeffs' = IF NextLog(op, r) = <<>> \/ op = "begin_transaction" THEN <<>>
                 ELSE IF op = "execute" THEN txeffs \o eff
                 ELSE txeffs
    /\ snap' = IF NextLog(op, r) = <<>> \/ op = "begin_transaction" THEN r.s.committed
               ELSE snap
    /\ UNCHANGED <<cvvars, row, ftpvars>>

\* a call made outside any caller's program
Call(op, r, req, eff, q) == Step(op, r, req, eff, q) /\ UNCHANGED client

CallConnect == \E c \in ConnectOutcomes(Cur) : Call("connect", connect(Cur, c), NoReq, <<>>, <<>>)

CallClose == \E rb, cl \in BOOLEAN : Call("close", close(Cur, rb, cl), NoReq, <<>>, <<>>)

CallBeginTransaction ==
    \E c \in ConnectOutcomes(Cur) : Call("begin_transaction", begin_transaction(Cur, c), NoReq, <<>>, <<>>)

CallCommit == \E ok \in BOOLEAN : Call("commit", commit(Cur, ok), NoReq, <<>>, <<>>)

CallRollback == \E ok \in BOOLEAN : Call("rollback", rollback(Cur, ok), NoReq, <<>>, <<>>)

CallExecute ==
    \E req \in Requests, eff \in Effects, c \in ConnectOutcomes(Cur), x \in BOOLEAN,
       ok \in CommitOutcomes(Cur) :
        Call("execute", execute(Cur, req, eff, c, x, ok), req, <<eff>>, <<>>)

CallFetchOne ==
    \E req \in Requests, q \in Vals, c \in ConnectOutcomes(Cur), x \in BOOLEAN :
        Call("fetch_one", fetch_one(Cur, req, q, c, x), req, <<>>, <<q>>)

CallFetchAll ==
    \E req \in Requests, q \in Vals, c \in ConnectOutcomes(Cur), x \in BOOLEAN :
        Call("fetch_all", fetch_all(Cur, req, q, c, x), req, <<>>, <<q>>)

\* the engine or the network drops the connection: its uncommitted work is rolled back
ConnectionLost ==
    /\ conn # NoConn /\ alive
    /\ Call("lost", Result([Cur EXCEPT !.alive = FALSE, !.pending = NoWrites], "none", <<>>),
            NoReq, <<>>, <<>>)

Init ==
    /\ conn = NoConn
    /\ in_transaction = FALSE
    /\ connCount = 0
    /\ alive = FALSE
    /\ autocommit = FALSE
    /\ committed = [k \in Keys |-> "old"]
    /\ pending = NoWrites
    /\ last = [op |-> "init", err |-> "none", key |-> <<>>, calls |-> <<>>,
               ret |-> NoRet, tx0 |-> FALSE, req |-> NoReq, eff |-> <<>>, q |-> <<>>]
    /\ txlog = <<>>
    /\ txeffs = <<>>
    /\ snap = [k \in Keys |-> "old"]
    /\ cvSql = <<>>
    /\ cvParams = ParamsNone
    /\ cvOut = [done |-> FALSE]
    /\ row = NoRow
    /\ FtpIdle
    /\ client = NoClient

Next ==
    \/ CallConnect
    \/ CallClose
    \/ CallBeginTransaction
    \/ CallCommit
    \/ CallRollback
    \/ CallExecute
    \/ CallFetchOne
    \/ CallFetchAll
    \/ ConnectionLost

Spec == Init /\ [][Next]_vars

-----------------------------------------------------------------------------
(* A caller running a program against one MsSqlDataBase: the calls of a try *)
(* block in order, the calls of its except handler, the calls of its        *)
(* finally block.  A plain sequence of calls has no handler and no finally  *)
(* block: the first error ends it.                                          *)

Program(body, handler, final) == [body |-> body, handler |-> handler, final |-> final]

\* src/config/database.py, lines 150-168
UsageExample ==
    Program(<<"execute", "begin_transaction", "execute", "execute", "commit">>,
            <<"rollback">>, <<"close">>)

\* src/Main.py, lines 129-155
OnLogin ==
    Program(<<"begin_transaction", "fetch_all", "commit">>, <<"rollback">>, <<"close">>)

UnitsOfWork == {UsageExample, OnLogin}

\* a sequence of calls with no handler: the first exception ends it
Script(body) == Program(body, <<>>, <<>>)

\* a transaction that is ended, then a statement outside it, then a rollback or close
ScopeScripts ==
    {Script(<<"begin_transaction", "execute", end, "execute", after>>) :
        end \in {"commit", "rollback"}, after \in {"rollback", "close"}}

\* the transaction law's sequence: two statements, then commit or rollback
TransactionScripts ==
    {Script(<<"begin_transaction", "execute", "execute", end>>) :
        end \in {"commit", "rollback"}}

Programs == UnitsOfWork \cup ScopeScripts \cup TransactionScripts

Start(prog) == [prog |-> prog, phase |-> "try", i |-> 1, err |-> "none", hist |-> <<>>]

CurrentOp(c) ==
    IF c.phase = "try" THEN c.prog.body[c.i]
    ELSE IF c.phase = "except" THEN c.prog.handler[c.i]
    ELSE c.prog.final[c.i]

\* control passes to the finally block, with the exception err in flight
ToFinally(c, err) ==
    IF c.prog.final # <<>>
    THEN [c EXCEPT !.phase = "finally", !.i = 1, !.err = err]
    ELSE [c EXCEPT !.phase = "done", !.i = 1, !.err = err]

\* where the caller is after a call that raised err ("none": it returned)
Advance(c, err) ==
    IF c.phase = "try"
    THEN IF err = "none"
         THEN IF c.i < Len(c.prog.body) THEN [c EXCEPT !.i = c.i + 1] ELSE ToFinally(c, "none")
         ELSE IF c.prog.handler # <<>>
         THEN [c EXCEPT !.phase = "except", !.i = 1, !.err = err]
         ELSE ToFinally(c, err)
    ELSE IF c.phase = "except"
    THEN IF err # "none" THEN ToFinally(c, err)
         ELSE IF c.i < Len(c.prog.handler) THEN [c EXCEPT !.i = c.i + 1]
         ELSE ToFinally(c, "none")
    ELSE IF err # "none" THEN [c EXCEPT !.phase = "done", !.i = 1, !.err = err]
         ELSE IF c.i < Len(c.prog.final) THEN [c EXCEPT !.i = c.i + 1]
         ELSE [c EXCEPT !.phase = "done", !.i = 1]

PlainRequest == [sql |-> <<"a">>, params |-> ParamsNone]

\* the method op called in state s, with the driver's outcomes
Perform(op, s, eff, q, canConnect, ok1, ok2) ==
    CASE op = "connect" -> connect(s, canConnect)
      [] op = "begin_transaction" -> begin_transaction(s, canConnect)
      [] op = "execute" -> execute(s, PlainRequest, eff, canConnect, ok1, ok2)
      [] op = "fetch_all" -> fetch_all(s, PlainRequest, q, canConnect, ok1)
      [] op = "commit" -> commit(s, ok1)
      [] op = "rollback" -> rollback(s, ok1)
      [] op = "close" -> close(s, ok1, ok2)

\* the next call of the caller's program
ClientCall ==
    /\ client.phase \in {"try", "except", "finally"}
    /\ \E eff \in Effects, q \in Vals, c \in ConnectOutcomes(Cur), ok1, ok2 \in BOOLEAN :
          LET op == CurrentOp(client)
              r == Perform(op, Cur, eff, q, c, ok1, ok2)
              e == IF op = "execute" THEN <<eff>> ELSE <<>>
          IN /\ Step(op, r, IF op \in {"execute", "fetch_all"} THEN PlainRequest ELSE NoReq,
                     e, IF op = "fetch_all" THEN <<q>> ELSE <<>>)
             /\ client' = [Advance(client, r.err) EXCEPT
                               !.hist = Append(@, [op |-> op, err |-> r.err, eff |-> e])]

InitClient ==
    /\ conn = NoConn
    /\ in_transaction = FALSE
    /\ connCount = 0
    /\ alive = FALSE
    /\ autocommit = FALSE
    /\ committed = [k \in Keys |-> "old"]
    /\ pending = NoWrites
    /\ last = [op |-> "init", err |-> "none", key |-> <<>>, calls |-> <<>>,
               ret |-> NoRet, tx0 |-> FALSE, req |-> NoReq, eff |-> <<>>, q |-> <<>>]
    /\ txlog = <<>>
    /\ txeffs = <<>>
    /\ snap = [k \in Keys |-> "old"]
    /\ cvSql = <<>>
    /\ cvParams = ParamsNone
    /\ cvOut = [done |-> FALSE]
    /\ row = NoRow
    /\ FtpIdle
    /\ client \in {Start(p) : p \in Programs}

NextClient ==
    \/ ClientCall
    \/ ConnectionLost

SpecClient == InitClient /\ [][NextClient]_vars

-----------------------------------------------------------------------------
(* Two callers sharing one MsSqlDataBase with no synchronisation: each runs *)
(* its own sequence of calls, and the calls interleave in any order.  The   *)
(* executor takes no lock, so nothing orders one caller's calls against the *)
(* other's.                                                                 *)

Callers == {"A", "B"}

\* caller A works in a transaction and abandons it; caller B issues one call
SharedA == {<<"begin_transaction", "execute", "rollback">>}
SharedB == {<<"execute">>, <<"commit">>}

\* the next call of caller w; a caller stops at its first error
SharedCall(w) ==
    /\ client.phase = "shared"
    /\ client.pc[w] <= Len(client.prog[w])
    /\ \E eff \in Effects, q \in Vals, c \in ConnectOutcomes(Cur), ok1, ok2 \in BOOLEAN :
          LET op == client.prog[w][client.pc[w]]
              r == Perform(op, Cur, eff, q, c, ok1, ok2)
              e == IF op = "execute" THEN <<eff>> ELSE <<>>
          IN /\ Step(op, r, IF op = "execute" THEN PlainRequest ELSE NoReq, e, <<>>)
             /\ client' = [client EXCEPT
                   !.pc[w] = IF r.err = "none" THEN @ + 1 ELSE Len(client.prog[w]) + 1,
                   !.hist = Append(@, [who |-> w, op |-> op, err |-> r.err, eff |-> e,
                                       flag |-> r.s.in_transaction])]

InitShared ==
    /\ conn = NoConn
    /\ in_transaction = FALSE
    /\ connCount = 0
    /\ alive = FALSE
    /\ autocommit = FALSE
    /\ committed = [k \in Keys |-> "old"]
    /\ pending = NoWrites
    /\ last = [op |-> "init", err |-> "none", key |-> <<>>, calls |-> <<>>,
               ret |-> NoRet, tx0 |-> FALSE, req |-> NoReq, eff |-> <<>>, q |-> <<>>]
    /\ txlog = <<>>
    /\ txeffs = <<>>
    /\ snap = [k \in Keys |-> "old"]
    /\ cvSql = <<>>
    /\ cvParams = ParamsNone
    /\ cvOut = [done |-> FALSE]
    /\ row = NoRow
    /\ FtpIdle
    /\ \E a \in SharedA, b \in SharedB :
          client = [phase |-> "shared", pc |-> [w \in Callers |-> 1],
                    prog |-> [w \in Callers |-> IF w = "A" THEN a ELSE b], hist |-> <<>>]

NextShared == \E w \in Callers : SharedCall(w)

SpecShared == InitShared /\ [][NextShared]_vars

-----------------------------------------------------------------------------
(* The flag-less variant, class SqlServerDB of src/SqlServerDB.py: it keeps *)
(* no in_transaction flag, hands its parameters to the driver as they are   *)
(* and never commits by itself.                                             *)

\* connect: pyodbc.Error is re-raised as ConnectionError; there is no flag to reset
SqlServerDB_connect(s, canConnect) ==
    [connect(s, canConnect) EXCEPT !.s.in_transaction = s.in_transaction]

\* close: the handle is cleared in the finally block, whether conn.close() raises or not
SqlServerDB_close(s, closeOk) ==
    IF s.conn # NoConn
    THEN Result([DriverClose(s) EXCEPT !.conn = NoConn],
                IF closeOk THEN "none" ELSE "DriverError", <<"close">>)
    ELSE Result(s, "none", <<>>)

SqlServerDB_commit(s, commitOk) ==
    IF s.conn = NoConn
    THEN Result(s, "RuntimeError", <<>>)
    ELSE IF s.alive /\ commitOk
    THEN Result(DriverCommit(s), "none", <<"commit">>)
    ELSE Result(s, "DriverError", <<"commit">>)

\* faulty variant of the flag-less rollback: the driver's error is not caught
SqlServerDB_rollback_raises(s, rollbackOk) ==
    IF s.conn = NoConn
    THEN Result(s, "none", <<>>)
    ELSE IF s.alive /\ rollbackOk
    THEN Result(DriverRollback(s), "none", <<"rollback">>)
    ELSE Result(s, "DriverError", <<"rollback">>)

\* rollback: `except pyodbc.Error: return`
SqlServerDB_rollback(s, rollbackOk) ==
    IF s.conn = NoConn
    THEN Result(s, "none", <<>>)
    ELSE IF s.alive /\ rollbackOk
    THEN Result(DriverRollback(s), "none", <<"rollback">>)
    ELSE Result(s, "none", <<"rollback">>)

\* faulty variant of the flag-less execute: it commits its statement, as MsSqlDataBase does
SqlServerDB_execute_commits(s, eff, canConnect, execOk) ==
    LET c == SqlServerDB_connect(s, canConnect)
    IN IF c.err # "none" THEN c
       ELSE IF ~execOk
       THEN Result(c.s, "QueryError", c.calls \o <<"cursor", "execute", "cursor.close">>)
       ELSE Result(DriverCommit(DriverExecute(c.s, eff)), "none",
                   c.calls \o <<"cursor", "execute", "commit", "cursor.close">>)

SqlServerDB_execute(s, eff, canConnect, execOk) ==
    LET c == SqlServerDB_connect(s, canConnect)
    IN IF c.err # "none" THEN c
       ELSE IF ~execOk
       THEN Result(c.s, "QueryError", c.calls \o <<"cursor", "execute", "cursor.close">>)
       ELSE Result(DriverExecute(c.s, eff), "none",
                   c.calls \o <<"cursor", "execute", "cursor.close">>)

\* fetch_all returns the driver's rows as they are
SqlServerDB_fetch_all(s, q, canConnect, execOk) ==
    LET c == SqlServerDB_connect(s, canConnect)
    IN IF c.err # "none" THEN c
       ELSE IF ~execOk
       THEN Result(c.s, "QueryError", c.calls \o <<"cursor", "execute", "cursor.close">>)
       ELSE [Result(c.s, "none", c.calls \o <<"cursor", "execute", "cursor.close">>)
                EXCEPT !.ret = [kind |-> "list", rows |-> QueryRows(c.s, q)]]

PlainConnect ==
    \E c \in ConnectOutcomes(Cur) : Call("connect", SqlServerDB_connect(Cur, c), NoReq, <<>>, <<>>)

PlainClose == \E cl \in BOOLEAN : Call("close", SqlServerDB_close(Cur, cl), NoReq, <<>>, <<>>)

PlainCommit == \E ok \in BOOLEAN : Call("commit", SqlServerDB_commit(Cur, ok), NoReq, <<>>, <<>>)

PlainRollback ==
    \E ok \in BOOLEAN : Call("rollback", SqlServerDB_rollback(Cur, ok), NoReq, <<>>, <<>>)

PlainExecute ==
    \E eff \in Effects, c \in ConnectOutcomes(Cur), x \in BOOLEAN :
        Call("execute", SqlServerDB_execute(Cur, eff, c, x), NoReq, <<eff>>, <<>>)

PlainFetchAll ==
    \E q \in Vals, c \in ConnectOutcomes(Cur), x \in BOOLEAN :
        Call("fetch_all", SqlServerDB_fetch_all(Cur, q, c, x), NoReq, <<>>, <<q>>)

NextPlain ==
    \/ PlainConnect
    \/ PlainClose
    \/ PlainCommit
    \/ PlainRollback
    \/ PlainExecute
    \/ PlainFetchAll
    \/ ConnectionLost

SpecPlain == Init /\ [][NextPlain]_vars

-----------------------------------------------------------------------------
(* The flag-less variant as context manager:                                *)
(*   with SqlServerDB() as db:                                              *)
(*       with db.transaction():                                             *)
(*           db.execute(...) ...                                            *)

\* begin_transaction: self.connect() and nothing else
SqlServerDB_begin_transaction(s, canConnect) == SqlServerDB_connect(s, canConnect)

\* the bodies of the transaction block: one to MaxExec statements
Bodies == SeqsUpTo(Effects, MaxExec) \ {<<>>}

\* the method called at each point of the two nested blocks
WithOp(c) ==
    CASE c.pc = "enter" -> "connect"
      [] c.pc = "begin" -> "begin_transaction"
      [] c.pc = "body" -> "execute"
      [] c.pc = "commit" -> "commit"
      [] c.pc \in {"tx_rollback", "exit_rollback"} -> "rollback"
      [] c.pc = "close" -> "close"

WithPerform(c, s, canConnect, ok) ==
    CASE c.pc = "enter" -> SqlServerDB_connect(s, canConnect)
      [] c.pc = "begin" -> SqlServerDB_begin_transaction(s, canConnect)
      [] c.pc = "body" -> SqlServerDB_execute(s, c.body[c.i], canConnect, ok)
      [] c.pc = "commit" -> SqlServerDB_commit(s, ok)
      [] c.pc \in {"tx_rollback", "exit_rollback"} -> SqlServerDB_rollback(s, ok)
      [] c.pc = "close" -> SqlServerDB_close(s, ok)

\* where control goes after the call at c.pc raised err ("none": it returned).
\* raised: the exception in flight.
WithAdvance(c, err) ==
    CASE c.pc = "enter" ->
            IF err = "none" THEN [c EXCEPT !.pc = "begin"]
            ELSE [c EXCEPT !.pc = "done", !.raised = err]         \* __enter__ raised: no __exit__
      [] c.pc = "begin" ->
            IF err = "none" THEN [c EXCEPT !.pc = "body", !.i = 1]
            ELSE [c EXCEPT !.pc = "exit_rollback", !.raised = err] \* raised before the try
      [] c.pc = "body" ->
            IF err # "none" THEN [c EXCEPT !.pc = "tx_rollback", !.raised = err]
            ELSE IF c.i < Len(c.body) THEN [c EXCEPT !.i = c.i + 1]
            ELSE [c EXCEPT !.pc = "commit"]
      [] c.pc = "commit" ->
            IF err # "none" THEN [c EXCEPT !.pc = "tx_rollback", !.raised = err]
            ELSE [c EXCEPT !.pc = "close"]                         \* __exit__ with no exception
      [] c.pc = "tx_rollback" ->
            IF err # "none" THEN [c EXCEPT !.pc = "exit_rollback", !.raised = err]
            ELSE [c EXCEPT !.pc = "exit_rollback", !.left = c.raised]  \* raise
      [] c.pc = "exit_rollback" ->
            IF err # "none" THEN [c EXCEPT !.pc = "done", !.raised = err]
            ELSE [c EXCEPT !.pc = "close"]
      [] c.pc = "close" ->
            IF err # "none" THEN [c EXCEPT !.pc = "done", !.raised = err]
            ELSE [c EXCEPT !.pc = "done"]

WithCall ==
    /\ client.phase = "with"
    /\ client.pc # "done"
    /\ \E c \in ConnectOutcomes(Cur), ok \in BOOLEAN :
          LET op == WithOp(client)
              r == WithPerform(client, Cur, c, ok)
              e == IF op = "execute" THEN <<client.body[client.i]>> ELSE <<>>
          IN /\ Step(op, r, NoReq, e, <<>>)
             /\ client' = [WithAdvance(client, r.err) EXCEPT
                               !.hist = Append(@, [pc |-> client.pc, op |-> op, err |-> r.err,
                                                   calls |-> r.calls])]

InitWith ==
    /\ conn = NoConn
    /\ in_transaction = FALSE
    /\ connCount = 0
    /\ alive = FALSE
    /\ autocommit = FALSE
    /\ committed = [k \in Keys |-> "old"]
    /\ pending = NoWrites
    /\ last = [op |-> "init", err |-> "none", key |-> <<>>, calls |-> <<>>,
               ret |-> NoRet, tx0 |-> FALSE, req |-> NoReq, eff |-> <<>>, q |-> <<>>]
    /\ txlog = <<>>
    /\ txeffs = <<>>
    /\ snap = [k \in Keys |-> "old"]
    /\ cvSql = <<>>
    /\ cvParams = ParamsNone
    /\ cvOut = [done |-> FALSE]
    /\ row = NoRow
    /\ FtpIdle
    /\ \E body \in Bodies :
          client = [phase |-> "with", pc |-> "enter", i |-> 1, body |-> body,
                    raised |-> "none", left |-> "none", hist |-> <<>>]

NextWith ==
    \/ WithCall
    \/ ConnectionLost

SpecWith == InitWith /\ [][NextWith]_vars

-----------------------------------------------------------------------------
(* SqlHelper.transaction: a list of (sql, params) actions run on one new    *)
(* connection. SqlHelper keeps no connection between calls.                 *)

ParamA == ParamsNamed(<<[param_name |-> <<"a">>, param_value |-> 10]>>)

\* the actions a caller passes: statement text, parameters, and the statement's effect
ActionSamples == [sql : {<<":", "a">>, <<"@", "b">>}, params : {ParamA}, eff : Effects]

ActionLists == SeqsUpTo(ActionSamples, MaxExec) \ {<<>>}

\* for sql, params in actions: convert, then cursor.execute; stops at the first
\* action that raises (failAt: the action on which the engine fails, 0 for none)
RECURSIVE RunActions(_, _, _, _)
RunActions(actions, i, failAt, acc) ==
    IF i > Len(actions) THEN acc
    ELSE LET cv == convert_named_to_qmark(actions[i].sql, actions[i].params)
         IN IF cv.err # "none"
            THEN [acc EXCEPT !.failed = i, !.err = cv.err, !.key = cv.key]
            ELSE IF failAt = i
            THEN [acc EXCEPT !.failed = i, !.err = "QueryError",
                             !.calls = Append(@, "execute")]
            ELSE RunActions(actions, i + 1, failAt,
                            [acc EXCEPT !.pending = Write(@, actions[i].eff),
                                        !.calls = Append(@, "execute")])

\* except Exception as ex: conn.rollback(); raise ex - and then the connection's
\* __exit__, which rolls back again because an exception is in flight.
\* orig: the error caught; from: the call whose error the caller sees.
HelperFailure(store, orig, calls, rollbackOk, exitOk) ==
    [committed |-> store,
     err |-> IF rollbackOk /\ exitOk THEN orig.err ELSE "DriverError",
     key |-> IF rollbackOk /\ exitOk THEN orig.key ELSE <<>>,
     from |-> IF ~exitOk THEN "exit" ELSE IF ~rollbackOk THEN "rollback" ELSE orig.from,
     failed |-> orig.failed,
     calls |-> calls \o <<"rollback", "exit.rollback">>]

\* SqlHelper.transaction(actions) on the committed store
transaction(store, actions, canConnect, failAt, cursorExitOk, commitOk, rollbackOk, exitOk) ==
    IF ~canConnect
    THEN [committed |-> store, err |-> "ConnectError", key |-> <<>>, from |-> "connect",
          failed |-> 0, calls |-> <<"connect">>]
    ELSE LET run == RunActions(actions, 1, failAt,
                               [pending |-> NoWrites, failed |-> 0, err |-> "none",
                                key |-> <<>>, calls |-> <<"connect", "cursor">>])
         IN IF run.failed # 0
            THEN \* the cursor's __exit__ sees the exception and commits nothing
                 HelperFailure(store, [err |-> run.err, key |-> run.key, from |-> "action",
                                       failed |-> run.failed],
                               run.calls, rollbackOk, exitOk)
            ELSE IF ~cursorExitOk
            THEN \* the cursor's __exit__ commits when the block ends normally
                 HelperFailure(store, [err |-> "DriverError", key |-> <<>>,
                                       from |-> "cursor.exit", failed |-> 0],
                               run.calls \o <<"cursor.exit.commit">>, rollbackOk, exitOk)
            ELSE IF ~commitOk
            THEN HelperFailure(Overlay(store, run.pending),
                               [err |-> "DriverError", key |-> <<>>, from |-> "commit",
                                failed |-> 0],
                               run.calls \o <<"cursor.exit.commit", "commit">>,
                               rollbackOk, exitOk)
            ELSE [committed |-> Overlay(store, run.pending),
                  err |-> IF exitOk THEN "none" ELSE "DriverError",
                  key |-> <<>>,
                  from |-> IF exitOk THEN "none" ELSE "exit",
                  failed |-> 0,
                  calls |-> run.calls \o <<"cursor.exit.commit", "commit", "exit.commit">>]

\* one call of transaction(client.actions), with the driver's outcomes
HelperTransaction ==
    /\ client.phase = "helper"
    /\ ~client.called
    /\ \E canConnect, cursorExitOk, commitOk, rollbackOk, exitOk \in BOOLEAN,
          failAt \in 0..MaxExec :
          LET r == transaction(committed, client.actions, canConnect, failAt, cursorExitOk,
                               commitOk, rollbackOk, exitOk)
          IN /\ committed' = r.committed
             /\ connCount' = IF canConnect THEN connCount + 1 ELSE connCount
             /\ client' = [phase |-> "helper", called |-> TRUE,
                           actions |-> client.actions, before |-> committed,
                           opened |-> connCount' - connCount,
                           err |-> r.err, key |-> r.key, from |-> r.from,
                           failed |-> r.failed, calls |-> r.calls]
    /\ UNCHANGED <<conn, in_transaction, alive, autocommit, pending, last, txlog, txeffs,
                   snap, cvvars, row, ftpvars>>

InitHelper ==
    /\ conn = NoConn
    /\ in_transaction = FALSE
    /\ connCount = 0
    /\ alive = FALSE
    /\ autocommit = FALSE
    /\ committed \in [Keys -> Vals]
    /\ pending = NoWrites
    /\ last = [op |-> "init", err |-> "none", key |-> <<>>, calls |-> <<>>,
               ret |-> NoRet, tx0 |-> FALSE, req |-> NoReq, eff |-> <<>>, q |-> <<>>]
    /\ txlog = <<>>
    /\ txeffs = <<>>
    /\ snap = committed
    /\ cvSql = <<>>
    /\ cvParams = ParamsNone
    /\ cvOut = [done |-> FALSE]
    /\ row = NoRow
    /\ FtpIdle
    /\ \E actions \in ActionLists :
          client = [phase |-> "helper", called |-> FALSE, actions |-> actions,
                    before |-> committed, opened |-> 0, err |-> "none", key |-> <<>>,
                    from |-> "none", failed |-> 0, calls |-> <<>>]

NextHelper == HelperTransaction

SpecHelper == InitHelper /\ [][NextHelper]_vars

-----------------------------------------------------------------------------
(* FtpClient (src/utils/ftpclient.py). self.ftp is None or an ftplib object *)
(* that has no socket ("nosock"), has a socket and no login ("open"), or is *)
(* logged in ("ready").                                                     *)

FileNames == {"f1", "f2"}

FtpOps == {"upload_file", "upload_string", "download_file", "delete_file", "read_file",
           "get_file_list", "change_dir"}

\* connect(): self.ftp = FTP() comes first; failAt is the ftplib call that raises
\* ("connect", "login", "cwd"; "none": all of them return)
FtpClient_connect(failAt) ==
    CASE failAt = "connect" -> [ftp |-> "nosock", ret |-> "False"]
      [] failAt = "login" -> [ftp |-> "open", ret |-> "False"]
      [] failAt = "cwd" -> [ftp |-> "ready", ret |-> "False"]
      [] failAt = "none" -> [ftp |-> "ready", ret |-> "True"]

\* what the server does with a command on a logged-in connection that works
Served(op, files, f) ==
    CASE op \in {"upload_file", "upload_string"} -> [ok |-> TRUE, files |-> files \cup {f}]
      [] op = "delete_file" -> [ok |-> f \in files, files |-> files \ {f}]
      [] op \in {"download_file", "read_file"} -> [ok |-> f \in files, files |-> files]
      [] OTHER -> [ok |-> TRUE, files |-> files]

\* the handler of each method: `except Exception` catches every error, change_dir's
\* `except (OSError, EOFError)` lets AttributeError and ftplib.error_perm through
Caught(op, error) == op # "change_dir" \/ error = "OSError"

FtpFailed(op, files, error, sent) ==
    [ret |-> IF Caught(op, error) THEN "failure" ELSE "none",
     raised |-> ~Caught(op, error), sent |-> sent, files |-> files]

\* upload_file ... change_dir on handle h; exists: the local file of upload_file
\* is there; netOk: the connection carries the command and its reply
FtpClient_call(op, h, files, f, exists, netOk) ==
    IF h = "None"
    THEN [ret |-> "failure", raised |-> FALSE, sent |-> FALSE, files |-> files]
    ELSE IF op = "upload_file" /\ ~exists
    THEN [ret |-> "failure", raised |-> FALSE, sent |-> FALSE, files |-> files]
    ELSE IF h = "nosock"
    THEN FtpFailed(op, files, "AttributeError", FALSE)
    ELSE IF ~netOk
    THEN FtpFailed(op, files, "OSError", TRUE)
    ELSE IF h = "open"
    THEN FtpFailed(op, files, "error_perm", TRUE)
    ELSE IF Served(op, files, f).ok
    THEN [ret |-> "success", raised |-> FALSE, sent |-> TRUE, files |-> Served(op, files, f).files]
    ELSE FtpFailed(op, files, "error_perm", TRUE)

FtpConnect ==
    /\ \E failAt \in {"connect", "login", "cwd", "none"} :
          LET r == FtpClient_connect(failAt)
          IN /\ ftp' = r.ftp
             /\ ftplog' = [connected |-> r.ret = "True", was |-> ftplog.connected,
                            op |-> "connect", ret |-> r.ret, raised |-> FALSE,
                            sent |-> failAt # "connect"]
    /\ UNCHANGED <<remote, dbvars, cvvars, client, row>>

\* disconnect(): quit(), or close() when quit() raises, then self.ftp = None
FtpDisconnect ==
    /\ ftp' = "None"
    /\ ftplog' = [connected |-> FALSE, was |-> ftplog.connected, op |-> "disconnect",
                   ret |-> "none", raised |-> FALSE, sent |-> ftp \in {"open", "ready"}]
    /\ UNCHANGED <<remote, dbvars, cvvars, client, row>>

FtpCall ==
    /\ \E op \in FtpOps, f \in FileNames, exists, netOk \in BOOLEAN :
          LET r == FtpClient_call(op, ftp, remote, f, exists, netOk)
          IN /\ remote' = r.files
             /\ ftplog' = [connected |-> ftplog.connected, was |-> ftplog.connected,
                            op |-> op, ret |-> r.ret, raised |-> r.raised, sent |-> r.sent]
    /\ UNCHANGED <<ftp, dbvars, cvvars, client, row>>

InitFtp ==
    /\ conn = NoConn
    /\ in_transaction = FALSE
    /\ connCount = 0
    /\ alive = FALSE
    /\ autocommit = FALSE
    /\ committed = [k \in Keys |-> "old"]
    /\ pending = NoWrites
    /\ last = [op |-> "init", err |-> "none", key |-> <<>>, calls |-> <<>>,
               ret |-> NoRet, tx0 |-> FALSE, req |-> NoReq, eff |-> <<>>, q |-> <<>>]
    /\ txlog = <<>>
    /\ txeffs = <<>>
    /\ snap = [k \in Keys |-> "old"]
    /\ cvSql = <<>>
    /\ cvParams = ParamsNone
    /\ cvOut = [done |-> FALSE]
    /\ client = NoClient
    /\ row = NoRow
    /\ FtpIdle

NextFtp ==
    \/ FtpConnect
    \/ FtpDisconnect
    \/ FtpCall

SpecFtp == InitFtp /\ [][NextFtp]_vars

-----------------------------------------------------------------------------
(* The row mapping alone, on every result of up to MaxCols columns whose    *)
(* names may repeat.                                                        *)

ColumnNames == {"c1", "c2"}
CellValues == {10, 20}

\* dict(zip(columns, row)) in fetch_one, fetch_all and SqlHelper.query
BuildRow ==
    /\ ~row.done
    /\ row' = [row EXCEPT !.done = TRUE, !.dict = dict_zip(row.columns, row.values)]
    /\ UNCHANGED <<dbvars, cvvars, client, ftpvars>>

InitRow ==
    /\ conn = NoConn
    /\ in_transaction = FALSE
    /\ connCount = 0
    /\ alive = FALSE
    /\ autocommit = FALSE
    /\ committed = [k \in Keys |-> "old"]
    /\ pending = NoWrites
    /\ last = [op |-> "init", err |-> "none", key |-> <<>>, calls |-> <<>>,
               ret |-> NoRet, tx0 |-> FALSE, req |-> NoReq, eff |-> <<>>, q |-> <<>>]
    /\ txlog = <<>>
    /\ txeffs = <<>>
    /\ snap = [k \in Keys |-> "old"]
    /\ cvSql = <<>>
    /\ cvParams = ParamsNone
    /\ cvOut = [done |-> FALSE]
    /\ client = NoClient
    /\ FtpIdle
    /\ \E n \in 1..MaxCols : \E cs \in [1..n -> ColumnNames], vs \in [1..n -> CellValues] :
          row = [done |-> FALSE, columns |-> cs, values |-> vs, dict |-> <<>>]

NextRow == BuildRow

SpecRow == InitRow /\ [][NextRow]_vars

-----------------------------------------------------------------------------
(* The parameter conversion alone, on every statement text and parameter    *)
(* list within the bounds.                                                  *)

NotRun == [err |-> "notrun", key |-> <<>>, sql |-> <<>>, values |-> <<>>]

\* one call of each converter on the inputs (a call can be repeated); the named
\* converters take None, an empty list or a list of SqlParameter
ConvertResults ==
    [done |-> TRUE,
     proc |-> process_parameters(cvSql, cvParams),
     named |-> IF cvParams.kind = "named" \/ cvParams.list = <<>>
               THEN convert_named_params(cvSql, cvParams.list)
               ELSE NotRun,
     qmark |-> IF cvParams.kind \in {"none", "named"} \/ cvParams.list = <<>>
               THEN convert_named_to_qmark(cvSql, cvParams)
               ELSE NotRun]

\* faulty variant of Convert: the converter pops the caller's list as it binds
Convert_consumes_params ==
    /\ cvOut' = ConvertResults
    /\ cvParams' = [cvParams EXCEPT !.list = IF @ = <<>> THEN @ ELSE SubSeq(@, 1, Len(@) - 1)]
    /\ UNCHANGED <<cvSql, client, row, ftpvars>>
    /\ UNCHANGED dbvars

Convert ==
    /\ cvOut' = ConvertResults
    /\ UNCHANGED <<cvSql, cvParams, client, row, ftpvars>>
    /\ UNCHANGED dbvars

InitConv ==
    /\ conn = NoConn
    /\ in_transaction = FALSE
    /\ connCount = 0
    /\ alive = FALSE
    /\ autocommit = FALSE
    /\ committed = [k \in Keys |-> "old"]
    /\ pending = NoWrites
    /\ last = [op |-> "init", err |-> "none", key |-> <<>>, calls |-> <<>>,
               ret |-> NoRet, tx0 |-> FALSE, req |-> NoReq, eff |-> <<>>, q |-> <<>>]
    /\ txlog = <<>>
    /\ txeffs = <<>>
    /\ snap = [k \in Keys |-> "old"]
    /\ cvSql \in Statements
    /\ cvParams \in ParamInputs
    /\ cvOut = [done |-> FALSE]
    /\ row = NoRow
    /\ FtpIdle
    /\ client = NoClient

NextConv == Convert

SpecConv == InitConv /\ [][NextConv]_vars

-----------------------------------------------------------------------------
(* Properties of the executor (specification Spec) *)

Range(f) == {f[i] : i \in DOMAIN f}

\* every effect of effs is among the connection's uncommitted writes, the last
\* write to a key standing
PendingHolds(effs) ==
    \A i \in DOMAIN effs :
        /\ effs[i].k \in DOMAIN pending
        /\ (\A j \in DOMAIN effs : j > i => effs[j].k # effs[i].k)
              => pending[effs[i].k] = effs[i].v

\* every effect of effs is in the committed store, the last write to a key standing
CommittedHolds(effs) ==
    \A i \in DOMAIN effs :
        (\A j \in DOMAIN effs : j > i => effs[j].k # effs[i].k)
            => committed[effs[i].k] = effs[i].v

\* C1: an execute() called with in_transaction false that returns normally has
\* committed on the connection before returning: its effect is in the committed
\* store (what a fresh connection reads) and nothing is left uncommitted.
C1_AutoCommit ==
    (last.op = "execute" /\ last.err = "none" /\ ~last.tx0)
        => /\ "commit" \in Range(last.calls)
           /\ committed[last.eff[1].k] = last.eff[1].v
           /\ pending = NoWrites
           /\ ~in_transaction

C1_Witness ==
    /\ last.op = "execute" /\ last.err = "none" /\ ~last.tx0
    /\ last.eff[1].v = "new"
    /\ committed[last.eff[1].k] = "new"

\* C2: an execute() that finds in_transaction true issues no commit; after
\* begin_transaction() and any number of successful execute() calls the committed
\* store is what it was at begin_transaction() and every effect is uncommitted.
C2_NoCommitInTransaction ==
    /\ (last.op = "execute" /\ in_transaction) => "commit" \notin Range(last.calls)
    /\ Tracking => /\ in_transaction
                   /\ committed = snap
                   /\ PendingHolds(txeffs)

C2_Witness ==
    /\ txlog = <<"begin", "execute", "execute">>
    /\ txeffs[1].v # snap[txeffs[1].k]
    /\ txeffs[2].v # snap[txeffs[2].k]
    /\ txeffs[1].k # txeffs[2].k
    /\ committed = snap

\* C3: begin_transaction(), successful execute() calls (two, or any number), then
\* rollback() leave the committed store as it was before begin_transaction().
C3_RollbackLaw ==
    (txlog # <<>> /\ txlog[Len(txlog)] = "rollback")
        => /\ committed = snap
           /\ pending = NoWrites
           /\ ~in_transaction

C3_Witness ==
    /\ txlog = <<"begin", "execute", "execute", "rollback">>
    /\ txeffs[1].v # snap[txeffs[1].k]
    /\ txeffs[2].v # snap[txeffs[2].k]
    /\ committed = snap

\* C4: begin_transaction(), two successful execute() calls, then commit(): until
\* commit() the committed store is the one of begin_transaction() (neither effect
\* alone is ever committed); when commit() returns it holds both effects.
C4_CommitLaw ==
    /\ Tracking => committed = snap
    /\ (txlog # <<>> /\ txlog[Len(txlog)] = "commit")
          => /\ CommittedHolds(txeffs)
             /\ pending = NoWrites
             /\ ~in_transaction

C4_Witness ==
    /\ txlog = <<"begin", "execute", "execute", "commit">>
    /\ txeffs[1].k # txeffs[2].k
    /\ txeffs[1].v # snap[txeffs[1].k]
    /\ txeffs[2].v # snap[txeffs[2].k]
    /\ committed[txeffs[1].k] = txeffs[1].v
    /\ committed[txeffs[2].k] = txeffs[2].v

\* C5: begin_transaction(), execute(), close() with no commit() or rollback()
\* leaves the committed store unchanged; a close() that finds a connection and
\* in_transaction true calls rollback on the connection, then closes it.
C5_CloseSafety ==
    /\ (txlog # <<>> /\ txlog[Len(txlog)] = "close")
          => /\ committed = snap
             /\ conn = NoConn
             /\ ~in_transaction
    /\ (last.op = "close" /\ last.tx0) => last.calls = <<"rollback", "close">>

C5_Witness ==
    /\ txlog = <<"begin", "execute", "close">>
    /\ txeffs[1].v # snap[txeffs[1].k]
    /\ last.calls = <<"rollback", "close">>
    /\ committed = snap

\* C6: in_transaction is false initially and when connect() has opened a fresh
\* connection, and when commit(), rollback() or close() has returned.
C6_FlagReset ==
    /\ last.op = "init" => ~in_transaction
    /\ (last.op = "connect" /\ last.err = "none" /\ "connect" \in Range(last.calls))
          => ~in_transaction
    /\ (last.op \in {"commit", "rollback", "close"} /\ last.err = "none")
          => ~in_transaction

C6_Witness ==
    /\ last.op = "commit" /\ last.err = "none" /\ last.tx0
    /\ ~in_transaction

\* C7: begin_transaction() that returns has a live connection and in_transaction
\* true; called while in_transaction is true on a live connection it changes
\* nothing: same handle, flag true, uncommitted work neither committed nor dropped.
C7_BeginTwice ==
    [][ /\ (last'.op = "begin_transaction" /\ last'.err = "none")
              => (in_transaction' /\ conn' # NoConn /\ alive')
        /\ (last'.op = "begin_transaction" /\ in_transaction /\ conn # NoConn /\ alive)
              => /\ last'.err = "none"
                 /\ in_transaction'
                 /\ conn' = conn /\ connCount' = connCount /\ alive'
                 /\ pending' = pending
                 /\ committed' = committed ]_vars

C7_Witness ==
    /\ last.op = "begin_transaction" /\ last.err = "none" /\ last.tx0
    /\ last.calls = <<"probe">>
    /\ in_transaction
    /\ pending # NoWrites

-----------------------------------------------------------------------------
(* Properties of the parameter conversion *)

\* A named placeholder as the specification defines it: a marker character,
\* colon or at-sign, followed by an identifier of letters, digits, underscore.
NamedPlaceholder == [markers |-> {":", "@"}, first |-> WordChars]

PlaceholderNames(sql) == re_findall(NamedPlaceholder, sql, 1)

Distinct(q) == \A i, j \in DOMAIN q : i # j => q[i] # q[j]

NamesOf(params) == {params[i].param_name : i \in DOMAIN params}

UniqueNames(params) ==
    \A i, j \in DOMAIN params : i # j => params[i].param_name # params[j].param_name

\* the value of the parameter named n, in a list whose names are unique
ValueOf(params, n) ==
    params[CHOOSE i \in DOMAIN params : params[i].param_name = n].param_value

\* what the claim C8 demands of a converter's result r on (sql, params)
PositionalForm(r, sql, params) ==
    /\ r.err = "none"
    /\ r.sql = re_sub(NamedPlaceholder, sql, 1)
    /\ Len(r.values) = Len(PlaceholderNames(sql))
    /\ \A i \in DOMAIN r.values :
          r.values[i] = ValueOf(params, PlaceholderNames(sql)[i])

\* C8: for a statement with N distinct named placeholders and a parameter list
\* binding all of them, each converter returns the text with the N placeholders
\* replaced by '?' in place and in order, the rest of the text unchanged, and the
\* N bound values in placeholder order.
C8_PositionalRewrite ==
    (/\ cvOut.done
     /\ cvParams.kind = "named"
     /\ UniqueNames(cvParams.list)
     /\ Distinct(PlaceholderNames(cvSql))
     /\ Range(PlaceholderNames(cvSql)) \subseteq NamesOf(cvParams.list))
        => /\ PositionalForm(cvOut.named, cvSql, cvParams.list)
           /\ PositionalForm(cvOut.qmark, cvSql, cvParams.list)

\* a statement that is one placeholder with marker m and identifier n, with or
\* without a blank before and after it
OneToken(sql, m, n, pre, post) == sql = pre \o <<m>> \o n \o post

Blanks == {<<>>, <<" ">>}

\* C9: with a non-empty named parameter list, ':' + identifier and '@' +
\* identifier are each replaced by '?' and each contribute the bound value.
C9_BothMarkers ==
    (cvOut.done /\ cvParams.kind = "named" /\ UniqueNames(cvParams.list))
        => \A m \in {":", "@"}, n \in NamesOf(cvParams.list), pre \in Blanks, post \in Blanks :
              OneToken(cvSql, m, n, pre, post)
                  => \A r \in {cvOut.named, cvOut.qmark} :
                        /\ r.err = "none"
                        /\ r.sql = pre \o <<"?">> \o post
                        /\ r.values = <<ValueOf(cvParams.list, n)>>

\* C10: a statement that references identifier X as a named placeholder, called
\* with a non-empty named parameter list without X: execute(), fetch_one() and
\* fetch_all() each raise KeyError naming X (once the connection is there).
C10_UnboundRaises ==
    (/\ last.op \in {"execute", "fetch_one", "fetch_all"}
     /\ last.req.params.kind = "named"
     /\ last.err # "ConnectError")
        => \A X \in Range(PlaceholderNames(last.req.sql)) \ NamesOf(last.req.params.list) :
              last.err = "KeyError" /\ last.key = X

\* the statement and the values a converter hands on when it does nothing
Untouched(r) == r.err = "none" /\ r.sql = cvSql /\ r.values = <<>>

\* C11: with an empty or absent parameter list each converter returns the statement
\* text unchanged and an empty value list, whatever ':' or '@' tokens the text
\* holds, and _process_parameters hands the statement on with no values bound
\* and raises no KeyError.
C11_EmptyParams ==
    cvOut.done /\ cvParams.list = <<>> =>
        /\ Untouched(cvOut.named)
        /\ Untouched(cvOut.qmark)
        /\ cvOut.proc.err = "none"
        /\ cvOut.proc.sql = cvSql
        /\ cvOut.proc.params = cvParams

C11_Witness ==
    /\ cvOut.done
    /\ cvParams = ParamsNone
    /\ cvSql = <<":", "a", "@", "b">>
    /\ cvOut.named.sql = cvSql
    /\ cvOut.proc.sql = cvSql

Positions(params, n) == {i \in DOMAIN params : params[i].param_name = n}

\* the value of the last parameter named n in list order
LastValueOf(params, n) ==
    params[CHOOSE i \in Positions(params, n) : \A j \in Positions(params, n) : j <= i].param_value

\* C13: when a converter binds a value to every placeholder of the statement, the
\* value bound to a placeholder is that of the last parameter of its name in the
\* list, so a name given twice binds its second value at every placeholder.
C13_LastWriteWins ==
    (cvOut.done /\ cvParams.kind = "named")
        => \A r \in {cvOut.named, cvOut.qmark} :
              (r.err = "none" /\ Len(r.values) = Len(PlaceholderNames(cvSql)))
                  => \A i \in DOMAIN r.values :
                        r.values[i] = LastValueOf(cvParams.list, PlaceholderNames(cvSql)[i])

C13_Witness ==
    /\ cvOut.done
    /\ cvSql = <<":", "a", ":", "a">>
    /\ cvParams = ParamsNamed(<<[param_name |-> <<"a">>, param_value |-> 10],
                                [param_name |-> <<"a">>, param_value |-> 20]>>)
    /\ cvOut.named.values = <<20, 20>>
    /\ cvOut.qmark.values = <<20, 20>>
    /\ cvOut.proc.params = ParamsPlain(<<20, 20>>)

-----------------------------------------------------------------------------
(* Calls made while there is no connection, and the exits of close()        *)

\* the executor (and the engine behind it) is as it was before the step
ExecutorUnchanged ==
    UNCHANGED <<conn, in_transaction, connCount, alive, autocommit, committed, pending>>

\* C14: commit() called while there is no connection raises RuntimeError, opens
\* no connection and changes nothing: the handle stays absent, in_transaction
\* stays false, no driver call is made.
C14_CommitWithoutConnection ==
    [][(last'.op = "commit" /\ conn = NoConn)
          => /\ last'.err = "RuntimeError"
             /\ last'.calls = <<>>
             /\ ExecutorUnchanged
             /\ conn' = NoConn /\ ~in_transaction']_vars

C14_Witness ==
    /\ last.op = "commit"
    /\ last.err = "RuntimeError"
    /\ conn = NoConn
    /\ connCount > 0

\* C15: rollback() called while there is no connection raises nothing, opens no
\* connection, makes no driver call and leaves the handle absent and
\* in_transaction false.
C15_RollbackWithoutConnection ==
    [][(last'.op = "rollback" /\ conn = NoConn)
          => /\ last'.err = "none"
             /\ last'.calls = <<>>
             /\ ExecutorUnchanged
             /\ conn' = NoConn /\ ~in_transaction']_vars

C15_Witness ==
    /\ last.op = "rollback"
    /\ last.err = "none"
    /\ last.calls = <<>>
    /\ conn = NoConn
    /\ ~in_transaction

\* C16: close() called while there is no connection raises nothing and changes
\* nothing, so a close() that follows a close() which returned leaves the executor
\* as the first one left it: no handle, in_transaction false.
C16_CloseIdempotent ==
    [][/\ (last'.op = "close" /\ conn = NoConn)
            => /\ last'.err = "none"
               /\ last'.calls = <<>>
               /\ ExecutorUnchanged
       /\ (last'.op = "close" /\ last.op = "close" /\ last.err = "none")
            => /\ last'.err = "none"
               /\ ExecutorUnchanged
               /\ conn' = NoConn /\ ~in_transaction']_vars

C16_Witness ==
    /\ last.op = "close"
    /\ last.err = "none"
    /\ last.calls = <<>>
    /\ conn = NoConn
    /\ ~in_transaction
    /\ connCount > 0

\* C17: after every exit of a close() that found a connection (normal return, an
\* exception out of the implicit rollback, an exception out of conn.close()) the
\* handle is cleared and in_transaction is false.
C17_CloseClears ==
    (last.op = "close" /\ last.calls # <<>>) => (conn = NoConn /\ ~in_transaction)

-----------------------------------------------------------------------------
(* Reads, and statements the engine rejects                                 *)

\* the call made no commit and no rollback, and the engine's committed data and
\* the connection's uncommitted work are what they were
NothingEnded ==
    /\ "commit" \notin Range(last'.calls)
    /\ "rollback" \notin Range(last'.calls)
    /\ committed' = committed
    /\ pending' = pending

\* C18 as stated: fetch_one() and fetch_all() never commit and never roll back,
\* whether they succeed or fail, leave pending work pending, and leave
\* in_transaction unchanged.
C18_FetchLeavesFlag ==
    [][last'.op \in {"fetch_one", "fetch_all"}
          => NothingEnded /\ in_transaction' = in_transaction]_vars

\* C18, amended: fetch_one() and fetch_all() never commit and never roll back,
\* whether they succeed or fail, and leave pending work pending; in_transaction
\* is unchanged unless the fetch's connect() step opened a new connection, which
\* resets it to false.
C18_FetchReadOnly ==
    [][last'.op \in {"fetch_one", "fetch_all"}
          => /\ NothingEnded
             /\ in_transaction' = IF conn' # conn THEN FALSE ELSE in_transaction]_vars

C18_Witness ==
    /\ last.op \in {"fetch_one", "fetch_all"}
    /\ last.err = "none"
    /\ last.tx0
    /\ in_transaction
    /\ pending # NoWrites

\* the rows matching the query of the last fetch, in result order, as the
\* connection sees them
Matching == RowDicts(QueryRows(Cur, last.q[1]))

\* C19: a fetch that raises nothing returns, for a query matching no row, the empty
\* list (fetch_all) or None (fetch_one), and otherwise every matching row in
\* result order (fetch_all) or exactly the first of them (fetch_one).
C19_EmptyResultLaw ==
    /\ (last.op = "fetch_all" /\ last.err = "none")
          => last.ret = [kind |-> "list", rows |-> Matching]
    /\ (last.op = "fetch_one" /\ last.err = "none")
          => last.ret = IF Matching = <<>>
                        THEN [kind |-> "None", rows |-> <<>>]
                        ELSE [kind |-> "row", rows |-> <<Matching[1]>>]

C19_Witness ==
    /\ last.op = "fetch_all"
    /\ last.err = "none"
    /\ Matching = <<>>
    /\ last.ret = [kind |-> "list", rows |-> <<>>]
    /\ pending # NoWrites

\* the step is an execute() whose statement the engine failed
StatementFailed == last'.op = "execute" /\ last'.err = "QueryError"

\* C20 as stated: when the engine fails the statement of an execute(), the error
\* reaches the caller, execute() makes no commit and no rollback, and
\* in_transaction and the connection handle are what they were before the call.
C20_FailureLeavesHandle ==
    [][StatementFailed
          => /\ NothingEnded
             /\ in_transaction' = in_transaction
             /\ conn' = conn]_vars

\* C20, amended: when the engine fails the statement of an execute(), the error
\* reaches the caller and execute() makes no commit and no rollback; if a live
\* connection existed at the call, in_transaction and the handle are unchanged,
\* and otherwise they are as the connect() step left them: a new handle and
\* in_transaction false.
C20_FailureFrame ==
    [][StatementFailed
          => /\ NothingEnded
             /\ IF is_connection_closed(Cur)
                THEN conn' # conn /\ conn' # NoConn /\ ~in_transaction'
                ELSE conn' = conn /\ in_transaction' = in_transaction]_vars

C20_Witness ==
    /\ last.op = "execute"
    /\ last.err = "QueryError"
    /\ last.calls = <<"probe", "cursor", "execute", "cursor.close">>
    /\ last.tx0
    /\ in_transaction
    /\ pending # NoWrites

-----------------------------------------------------------------------------
(* Errors and the work a call has done when it returns                      *)

\* what the connection sees: committed data overlaid with its own writes
View == Overlay(committed, pending)

\* C21: a call that returns normally has done its work - connect, begin, execute
\* and fetch leave a live connection, execute's write is in the connection's
\* view, commit and a rollback that found a connection leave nothing pending, a
\* close that found a connection leaves none - so every failure has been raised;
\* only rollback() and close() with no connection return without any driver call.
C21_NoErrorSwallowed ==
    last.err = "none" =>
        /\ last.op \in {"connect", "begin_transaction", "execute", "fetch_one", "fetch_all"}
              => conn # NoConn /\ alive
        /\ last.op = "execute" => View[last.eff[1].k] = last.eff[1].v
        /\ last.op = "commit" => "commit" \in Range(last.calls) /\ pending = NoWrites
        /\ (last.op = "rollback" /\ last.calls # <<>>) => pending = NoWrites
        /\ (last.op = "close" /\ last.calls # <<>>) => conn = NoConn
        /\ last.calls = <<>> => last.op \in {"rollback", "close", "init", "lost"}

-----------------------------------------------------------------------------
(* The connect step                                                         *)

\* the calls that begin with self.connect()
Connecting == {"connect", "begin_transaction", "execute", "fetch_one", "fetch_all"}

\* C22: a call that begins with connect() calls pyodbc.connect exactly when there
\* is no handle or the probe on the handle fails, and the handle changes only
\* then; on a live connection connect() changes nothing, begin_transaction()
\* keeps the handle and the pending work, execute() keeps the handle and the
\* flag, a fetch keeps handle, flag and pending work.
C22_ConnectFrame ==
    [][last'.op \in Connecting
          => /\ ("connect" \in Range(last'.calls)) <=> is_connection_closed(Cur)
             /\ conn' # conn => (is_connection_closed(Cur) /\ conn' = connCount')
             /\ ~is_connection_closed(Cur)
                   => /\ conn' = conn /\ connCount' = connCount
                      /\ last'.op # "begin_transaction" => in_transaction' = in_transaction
                      /\ last'.op # "execute" => pending' = pending /\ committed' = committed]_vars

C22_Witness ==
    /\ last.op = "connect"
    /\ last.calls = <<"probe">>
    /\ in_transaction
    /\ pending # NoWrites
    /\ conn = connCount

\* C23: whenever the executor holds a handle, auto-commit is off on it, and the
\* committed store changes only in a step that calls conn.commit(): a commit(),
\* or an execute() that finds in_transaction false.
C23_ExplicitCommitOnly ==
    [][/\ conn' # NoConn => ~autocommit'
       /\ committed' # committed
            => /\ "commit" \in Range(last'.calls)
               /\ last'.op \in {"commit", "execute"}
               /\ last'.op = "execute" => ~in_transaction']_vars

C23_Witness ==
    /\ conn # NoConn
    /\ ~autocommit
    /\ in_transaction
    /\ last.op = "execute"
    /\ last.err = "none"
    /\ pending # NoWrites
    /\ committed = [k \in Keys |-> "old"]

\* C24: a call whose connect() step cannot open a connection raises the connection
\* error and leaves the executor as it was: in_transaction is not set, no
\* statement is run and nothing is committed.
C24_ConnectFailure ==
    [][last'.err = "ConnectError"
          => /\ last'.op \in Connecting
             /\ ExecutorUnchanged
             /\ Range(last'.calls) \subseteq {"probe", "connect"}]_vars

C24_Witness ==
    /\ last.op = "begin_transaction"
    /\ last.err = "ConnectError"
    /\ last.calls = <<"connect">>
    /\ conn = NoConn
    /\ ~in_transaction

-----------------------------------------------------------------------------
(* Callers' programs                                                        *)

Called(op) == \E i \in DOMAIN client.hist : client.hist[i].op = op

\* C25: when a unit of work (try: begin, statements, commit; except: rollback;
\* finally: close) has ended, close() has been called, the executor holds no
\* connection and in_transaction is false, whichever call failed.
C25_UnitOfWorkCloses ==
    (client.phase = "done" /\ client.prog \in UnitsOfWork)
        => /\ Called("close")
           /\ conn = NoConn
           /\ ~in_transaction

\* call i of the shared history: caller w's op, which returned normally
Returned(i, w, op) ==
    /\ client.hist[i].who = w
    /\ client.hist[i].op = op
    /\ client.hist[i].err = "none"

Untouched0 == [k \in Keys |-> "old"]

\* C26: two callers share one executor.  (a) An execute() that B issued without
\* any begin_transaction() of its own, and that returned while the flag A had set
\* was still up, has committed nothing; once A's rollback() has returned, B's
\* write is in neither the committed store nor the pending work.  (b) A commit()
\* by B that returns after A's execute() puts A's write into the committed
\* store, if it comes before A's rollback(), and the rollback does not take it
\* out again.
C26_SharedExecutor ==
    client.phase = "shared" =>
        \A i, j \in DOMAIN client.hist :
            /\ (i < j /\ Returned(i, "B", "execute") /\ client.hist[i].flag
                       /\ Returned(j, "A", "rollback"))
                  => (committed = Untouched0 /\ (j = Len(client.hist) => pending = NoWrites))
            /\ (i < j /\ Returned(i, "A", "execute") /\ Returned(j, "B", "commit")
                       /\ \A m \in i..j : client.hist[m].op # "rollback")
                  => committed[client.hist[i].eff[1].k] = client.hist[i].eff[1].v

C26_Witness ==
    /\ client.phase = "shared"
    /\ Len(client.hist) = 4
    /\ Returned(1, "A", "begin_transaction")
    /\ Returned(2, "B", "execute")
    /\ client.hist[2].eff[1].v = "new"
    /\ Returned(3, "A", "execute")
    /\ Returned(4, "A", "rollback")
    /\ committed = Untouched0
    /\ pending = NoWrites
    /\ ~in_transaction

-----------------------------------------------------------------------------
(* Result rows                                                              *)

\* the positions of the columns named c
ColumnsNamed(c) == {j \in DOMAIN row.columns : row.columns[j] = c}

First(S) == CHOOSE j \in S : \A m \in S : j <= m
Latest(S) == CHOOSE j \in S : \A m \in S : m <= j

\* C27: the mapping built for a row has one entry for each column name, the
\* entries in the order in which the names first appear among the columns, and
\* each entry holds the row's value at the last column of its name.
C27_RowMapping ==
    row.done =>
        /\ {row.dict[i].key : i \in DOMAIN row.dict} = Range(row.columns)
        /\ \A i, j \in DOMAIN row.dict :
              i < j => First(ColumnsNamed(row.dict[i].key)) < First(ColumnsNamed(row.dict[j].key))
        /\ \A i \in DOMAIN row.dict :
              row.dict[i].value = row.values[Latest(ColumnsNamed(row.dict[i].key))]

C27_Witness ==
    /\ row.done
    /\ row.columns = <<"c1", "c2", "c1">>
    /\ row.values = <<10, 10, 20>>
    /\ row.dict = <<[key |-> "c1", value |-> 20], [key |-> "c2", value |-> 10]>>

-----------------------------------------------------------------------------
(* The scope of a transaction                                               *)

\* the caller's first n calls have been made and all of them returned
Returned_first(n) ==
    /\ Len(client.hist) >= n
    /\ \A i \in 1..n : client.hist[i].err = "none"

\* C28: after beginTransaction(); execute(s1); commit() or rollback(), an
\* execute(s2) that returns has committed s2 and left no transaction open, and
\* the rollback() or close() that follows leaves s2 in the committed store.
C28_ScopeEnds ==
    (client.phase # "none" /\ client.prog \in ScopeScripts /\ Returned_first(4)) =>
        LET s2 == client.hist[4].eff[1]
        IN /\ committed[s2.k] = s2.v
           /\ Len(client.hist) = 4 => pending = NoWrites /\ ~in_transaction

C28_Witness ==
    /\ client.phase = "done"
    /\ client.prog = Script(<<"begin_transaction", "execute", "rollback", "execute", "rollback">>)
    /\ Returned_first(5)
    /\ client.hist[2].eff = <<[k |-> "k1", v |-> "new"]>>
    /\ client.hist[4].eff = <<[k |-> "k2", v |-> "new"]>>
    /\ committed = [k \in Keys |-> IF k = "k2" THEN "new" ELSE "old"]
    /\ "rollback" \in Range(last.calls)

-----------------------------------------------------------------------------
(* Atomicity and a lost connection                                          *)

Initial == [k \in Keys |-> "old"]

\* the committed store with the caller's statements i..j applied in order
RECURSIVE Applied(_, _, _)
Applied(store, i, j) ==
    IF j < i THEN store
    ELSE LET e == client.hist[j].eff[1]
         IN [Applied(store, i, j - 1) EXCEPT ![e.k] = e.v]

\* C29: in beginTransaction(); execute(); execute(); commit() or rollback(),
\* with every call returning and the connection free to die between calls, no
\* statement reaches the committed store before the transaction is ended, a
\* commit() leaves both statements committed and a rollback() leaves neither.
C29_AtomicAcrossLoss ==
    (client.phase # "none" /\ client.prog \in TransactionScripts
        /\ Returned_first(Len(client.hist))) =>
        /\ Len(client.hist) < 4 => committed = Initial
        /\ Len(client.hist) = 4 =>
              committed = IF client.prog.body[4] = "commit"
                          THEN Applied(Initial, 2, 3)
                          ELSE Initial

-----------------------------------------------------------------------------
(* The flag and the handle                                                  *)

\* C30: between operations, whenever in_transaction is true the executor holds
\* a connection handle; whenever it holds none, the flag is false.
C30_FlagNeedsHandle == in_transaction => conn # NoConn

C30_Witness ==
    /\ last.op = "close"
    /\ last.tx0
    /\ last.calls = <<"rollback", "close">>
    /\ conn = NoConn
    /\ ~in_transaction

-----------------------------------------------------------------------------
(* A commit or rollback that the driver refuses                             *)

\* C31: when commit() or rollback() is called with in_transaction true and the
\* driver's call raises, the error reaches the caller, the handle is kept,
\* in_transaction stays true and nothing is committed; a close() that comes
\* next calls conn.rollback() before conn.close().
C31_EndingFailureKeepsFlag ==
    [][/\ (last'.op \in {"commit", "rollback"} /\ last'.err # "none" /\ in_transaction)
            => /\ last'.err = "DriverError"
               /\ in_transaction'
               /\ conn' = conn /\ conn' # NoConn
               /\ committed' = committed
       /\ (last.op \in {"commit", "rollback"} /\ last.err # "none" /\ last.tx0
              /\ last'.op = "close")
            => /\ Len(last'.calls) = 2
               /\ last'.calls[1] = "rollback"]_vars

C31_Witness ==
    /\ last.op = "commit"
    /\ last.err = "DriverError"
    /\ last.tx0
    /\ in_transaction
    /\ conn # NoConn /\ alive
    /\ pending # NoWrites

-----------------------------------------------------------------------------
(* An unbound named placeholder                                             *)

UnboundFailed ==
    /\ last'.op \in {"execute", "fetch_one", "fetch_all"}
    /\ last'.err = "KeyError"

\* the cursor of the call was opened, no statement went through it, and it was closed
CursorOnlyClosed ==
    /\ "execute" \notin Range(last'.calls)
    /\ \E n \in DOMAIN last'.calls :
          /\ n > 1
          /\ n = Len(last'.calls)
          /\ last'.calls[n - 1] = "cursor"
          /\ last'.calls[n] = "cursor.close"

\* C32 (as stated): when execute(), fetch_one() or fetch_all() fails on an
\* unbound named placeholder, no statement is sent, nothing is committed or
\* rolled back, the cursor is closed, and in_transaction and the handle are
\* what they were before the call.
C32_UnboundLeavesState ==
    [][UnboundFailed
          => /\ CursorOnlyClosed
             /\ NothingEnded
             /\ in_transaction' = in_transaction
             /\ conn' = conn]_vars

\* C32 (amended): when execute(), fetch_one() or fetch_all() fails on an
\* unbound named placeholder, no statement is sent, nothing is committed or
\* rolled back and the cursor is closed; in_transaction and the handle are
\* unchanged when a live connection existed at the call, and otherwise are as
\* the call's connect() step left them: a new handle and in_transaction false.
C32_UnboundFrame ==
    [][UnboundFailed
          => /\ CursorOnlyClosed
             /\ NothingEnded
             /\ IF is_connection_closed(Cur)
                THEN conn' # conn /\ conn' # NoConn /\ ~in_transaction'
                ELSE conn' = conn /\ in_transaction' = in_transaction]_vars

C32_Witness ==
    /\ last.op = "execute"
    /\ last.err = "KeyError"
    /\ last.calls = <<"probe", "cursor", "cursor.close">>
    /\ last.tx0
    /\ in_transaction
    /\ pending # NoWrites

-----------------------------------------------------------------------------
(* One value per placeholder occurrence                                     *)

\* the positions of the markers '?' in a converted text
MarkersIn(sql) == {i \in DOMAIN sql : sql[i] = "?"}

\* the occurrences of the identifier n among the placeholders of a statement
Occurrences(sql, n) == {i \in DOMAIN PlaceholderNames(sql) : PlaceholderNames(sql)[i] = n}

\* what the claim C33 demands of a converter's result r on (sql, params)
PerOccurrence(r, sql, params) ==
    /\ r.err = "none"
    /\ r.sql = re_sub(NamedPlaceholder, sql, 1)
    /\ Cardinality(MarkersIn(r.sql)) = Len(r.values)
    /\ \A n \in NamesOf(params) :
          /\ Cardinality({i \in DOMAIN r.values : i \in Occurrences(sql, n)})
                = Cardinality(Occurrences(sql, n))
          /\ \A i \in Occurrences(sql, n) : r.values[i] = LastValueOf(params, n)
    /\ Len(r.values) = Len(PlaceholderNames(sql))

\* C33: for a non-empty named parameter list binding every placeholder of the
\* statement, each converter replaces every placeholder occurrence by '?' and
\* returns one value per occurrence: an identifier occurring k times gives k
\* markers and its value at those k positions, a parameter the statement does
\* not reference gives nothing, and there are as many values as markers.
C33_ValuePerOccurrence ==
    (/\ cvOut.done
     /\ cvParams.kind = "named"
     /\ cvParams.list # <<>>
     /\ Range(PlaceholderNames(cvSql)) \subseteq NamesOf(cvParams.list))
        => /\ PerOccurrence(cvOut.named, cvSql, cvParams.list)
           /\ PerOccurrence(cvOut.qmark, cvSql, cvParams.list)

-----------------------------------------------------------------------------
(* The executor after close()                                               *)

\* C34: a connect(), begin_transaction(), execute() or fetch that follows a
\* close() that returned finds no handle and, unless the connection cannot be
\* opened, opens a new one with in_transaction false (begin_transaction() then
\* raises the flag); an execute() that returns has committed its statement and
\* nothing else, and no other call changes the committed store or leaves work
\* pending.
C34_ReusableAfterClose ==
    [][(last.op = "close" /\ last.err = "none" /\ last'.op \in Connecting)
          => /\ conn = NoConn /\ pending = NoWrites /\ ~in_transaction
             /\ last'.calls[1] = "connect"
             /\ last'.err # "ConnectError"
                   => /\ conn' # NoConn /\ conn' = connCount' /\ connCount' = connCount + 1
                      /\ alive'
                      /\ in_transaction' = (last'.op = "begin_transaction")
             /\ (last'.op = "execute" /\ last'.err = "none")
                   => /\ "commit" \in Range(last'.calls)
                      /\ committed' = [committed EXCEPT ![last'.eff[1].k] = last'.eff[1].v]
                      /\ pending' = NoWrites
             /\ last'.op # "execute" => committed' = committed /\ pending' = NoWrites]_vars

C34_Witness ==
    /\ last.op = "execute"
    /\ last.err = "none"
    /\ last.calls[1] = "connect"
    /\ connCount = 2
    /\ conn = 2
    /\ ~in_transaction
    /\ committed[last.eff[1].k] = last.eff[1].v
    /\ last.eff[1].v = "new"

-----------------------------------------------------------------------------
(* Which parameters are rewritten                                           *)

\* the statement and the parameters are handed to the driver as they were given
HandedOn == cvOut.proc = [err |-> "none", key |-> <<>>, sql |-> cvSql, params |-> cvParams]

\* C35: the statement and the parameters reach the driver as given unless the
\* parameters are a non-empty list whose first element is a parameter object:
\* a tuple (of values or of parameter objects), a dict, a list of values, a
\* list that begins with a value and an empty list are handed on unchanged
\* with the unchanged text, whatever ':' and '@' tokens the text contains.
C35_RewriteOnlyNamedList ==
    cvOut.done =>
        /\ ~HandedOn => (cvParams.kind = "named" /\ cvParams.list # <<>>)
        /\ cvParams.kind \in {"tuple", "object_tuple", "dict", "plain", "mixed"} => HandedOn

C35_Witness ==
    /\ cvOut.done
    /\ cvSql = <<":", "a", "@", "b">>
    /\ cvParams = ParamsObjectTuple(<<[param_name |-> <<"a">>, param_value |-> 10]>>)
    /\ cvOut.proc.sql = <<":", "a", "@", "b">>
    /\ cvOut.proc.params = cvParams

-----------------------------------------------------------------------------
(* SqlHelper.transaction                                                    *)

\* the number of times the call c appears in a call list
Times(calls, c) == Cardinality({i \in DOMAIN calls : calls[i] = c})

\* the store with the effects of the first n actions applied in order
RECURSIVE WithActions(_, _, _)
WithActions(store, actions, n) ==
    IF n = 0 THEN store
    ELSE [WithActions(store, actions, n - 1) EXCEPT ![actions[n].eff.k] = actions[n].eff.v]

\* C36: transaction(actions) opens one connection and calls conn.commit() at
\* most once, only after every action succeeded, and when it returns it has
\* committed every action's effect; when an action fails, on
\* the engine or on an unbound named parameter, it calls conn.rollback() and
\* never conn.commit(), the committed store is what it was before the call,
\* and the caller sees the error of the action that failed. The committed
\* store always ends with all of the actions' effects or none of them.
C36_HelperAllOrNothing ==
    (client.phase = "helper" /\ client.called /\ client.from # "connect") =>
        /\ client.opened = 1
        /\ committed \in {client.before,
                          WithActions(client.before, client.actions, Len(client.actions))}
        /\ Times(client.calls, "commit") <= 1
        /\ "commit" \in Range(client.calls)
              => /\ client.failed = 0
                 /\ Times(client.calls, "execute") = Len(client.actions)
                 /\ \A i, j \in DOMAIN client.calls :
                       (client.calls[i] = "execute" /\ client.calls[j] = "commit") => i < j
        /\ client.err = "none"
              => /\ Times(client.calls, "commit") = 1
                 /\ committed = WithActions(client.before, client.actions, Len(client.actions))
        /\ client.failed # 0
              => /\ Times(client.calls, "rollback") = 1
                 /\ Times(client.calls, "commit") = 0
                 /\ committed = client.before
                 /\ client.from = "action"
                 /\ client.err \in {"KeyError", "QueryError"}

-----------------------------------------------------------------------------
(* The flag-less variant never commits on its own                           *)

\* C38: in the flag-less SqlServerDB, execute() calls neither conn.commit() nor
\* conn.rollback() and leaves the committed store as it was; the committed
\* store changes only in a commit() that returns; close() on a connection
\* discards what was pending and commits nothing.
C38_PlainNeverCommits ==
    [][/\ last'.op = "execute"
            => /\ "commit" \notin Range(last'.calls)
               /\ "rollback" \notin Range(last'.calls)
               /\ committed' = committed
       /\ committed' # committed => (last'.op = "commit" /\ last'.err = "none")
       /\ last'.op = "close" => (committed' = committed /\ pending' = NoWrites)]_vars

C38_Witness ==
    /\ last.op = "execute"
    /\ last.err = "none"
    /\ last.eff = <<[k |-> "k1", v |-> "new"]>>
    /\ last.calls = <<"probe", "cursor", "execute", "cursor.close">>
    /\ DOMAIN pending = Keys
    /\ pending["k1"] = "new"
    /\ committed = [k \in Keys |-> "old"]

-----------------------------------------------------------------------------
(* The transaction block and the connection block                           *)

\* the calls of the history made at the point pc
At(pc) == {i \in DOMAIN client.hist : client.hist[i].pc = pc}

\* the calls of the history that raised inside the transaction block
RaisedInBlock ==
    {i \in DOMAIN client.hist : client.hist[i].pc \in {"body", "commit"}
                                   /\ client.hist[i].err # "none"}

\* C37: once the two blocks are left, (1) if every statement of the body
\* returned, commit() was called exactly once and conn.commit() with it;
\* (2) if a statement or the commit raised, no commit() returned, the
\* transaction block called rollback(), which reached conn.rollback(), and
\* left with the error that was raised; (3) if the connection block was
\* entered, close() was its last call, it reached conn.close(), the handle is
\* cleared, and when an exception left the block a rollback() came before it.
C37_WithBlocks ==
    (client.phase = "with" /\ client.pc = "done") =>
        /\ (\A i \in At("body") : client.hist[i].err = "none") /\ Cardinality(At("body")) = Len(client.body)
              => /\ Cardinality(At("commit")) = 1
                 /\ \A i \in At("commit") : client.hist[i].calls = <<"commit">>
        /\ RaisedInBlock # {}
              => /\ \A i \in At("commit") : client.hist[i].err # "none"
                 /\ Cardinality(At("tx_rollback")) = 1
                 /\ \A i \in At("tx_rollback") : client.hist[i].calls = <<"rollback">>
                 /\ \A i \in RaisedInBlock : client.left = client.hist[i].err
        /\ At("begin") # {}
              => /\ client.hist[Len(client.hist)].pc = "close"
                 /\ client.hist[Len(client.hist)].calls = <<"close">>
                 /\ conn = NoConn
                 /\ (At("tx_rollback") # {} \/ client.hist[2].err # "none")
                       => client.hist[Len(client.hist) - 1].pc = "exit_rollback"

C37_Witness ==
    /\ client.phase = "with"
    /\ client.pc = "done"
    /\ Len(client.body) = 2
    /\ Len(client.hist) = 7
    /\ client.hist[5].calls = <<"rollback">>
    /\ client.hist[4].pc = "body"
    /\ client.hist[4].err = "QueryError"
    /\ client.left = "QueryError"
    /\ client.raised = "QueryError"
    /\ committed = [k \in Keys |-> "old"]
    /\ conn = NoConn

-----------------------------------------------------------------------------
(* FtpClient when it is not connected                                       *)

\* C39: whenever no connect() has returned True since the construction or the
\* last disconnect(), the client holds no FTP handle, and a file operation
\* called then returns its failure value, raises nothing and sends no FTP
\* command.
C39_NotConnected ==
    /\ ~ftplog.connected => ftp = "None"
    /\ (ftplog.op \in FtpOps /\ ~ftplog.was)
          => /\ ftplog.ret = "failure"
             /\ ~ftplog.raised
             /\ ~ftplog.sent

====
